---- MODULE Spec2Model ----
(***************************************************************************)
(* City generator: rasterization primitives (bresenhamLine,               *)
(* midpointCircle), park / fountain placement, obstacle-aware road        *)
(* generation, building placement and the generateCity orchestrator.      *)
(***************************************************************************)
EXTENDS Integers, Sequences, FiniteSets, TLC

VARIABLES
    lineArgs,      \* arguments of the last bresenhamLine call: <<x0, y0, x1, y1>>
    linePoints,    \* its returned std::vector<Point>
    circleArgs,    \* arguments of the last midpointCircle call: <<cx, cy, radius>>
    circlePoints,  \* its returned std::vector<Point>
    config,        \* the CityConfig passed to the generateCity call
    cityData,      \* CityGenerator::cityData
    pc,            \* position inside generateCity ("idle" between calls)
    attempts,      \* the local attempts of generateParks / generateBuildings
    i,             \* the loop variable i of generateParks
    cityConfig,    \* main's CityConfig, which InputHandler::config refers to
    keysPressed,   \* InputHandler::keysPressed: the keys recorded as pressed
    down,          \* the keys glfwGetKey reported pressed to the latest processInput call
    genRequested,  \* InputHandler::genRequested
    lastView3D,    \* main's lastView3D
    buffers,       \* CityRenderer::VAOs with vertexCounts, one entry per buffer
    frameDraws,    \* the buffers bound by the passes of the latest render call
    loopPc,        \* position inside the render loop of main
    frames,        \* iterations of the render loop completed
    previous       \* the configuration and result of the generateCity call before the latest

rasterVars == <<lineArgs, linePoints, circleArgs, circlePoints>>

cityVars == <<config, cityData, pc, attempts, i>>

appVars == <<cityConfig, keysPressed, down, genRequested, lastView3D, buffers,
             frameDraws, loopPc, frames, previous>>

vars == <<lineArgs, linePoints, circleArgs, circlePoints,
          config, cityData, pc, attempts, i,
          cityConfig, keysPressed, down, genRequested, lastView3D, buffers,
          frameDraws, loopPc, frames, previous>>

(***************************************************************************)
(* Arithmetic helpers                                                     *)
(***************************************************************************)
Abs(n) == IF n < 0 THEN -n ELSE n

Max(a, b) == IF a > b THEN a ELSE b

Min(a, b) == IF a < b THEN a ELSE b

\* struct Point { int x; int y; }
Point(px, py) == [x |-> px, y |-> py]

PointSet(points) == {points[k] : k \in 1..Len(points)}

(***************************************************************************)
(* Single-precision arithmetic.  The generators keep centers, radii and   *)
(* distances in C++ float; each float operation rounds its exact result   *)
(* to a 24-bit significand (round to nearest, ties to even).  A           *)
(* non-negative float is the record [m, e] standing for m * 2^e, with     *)
(* 2^23 <= m < 2^24, or m = 0.  All intermediate integers stay below      *)
(* 2^31.                                                                  *)
(***************************************************************************)
TwoTo23 == 8388608

TwoTo24 == 16777216

\* the float nearest to n * 2^e for an integer 0 <= n < 2^31
RECURSIVE F32Round(_, _)
F32Round(n, e) ==
    IF n = 0 THEN [m |-> 0, e |-> 0]
    ELSE IF n < TwoTo23 THEN F32Round(2 * n, e - 1)
    ELSE IF n < TwoTo24 THEN [m |-> n, e |-> e]
    ELSE LET keep == n \div 2
             rest == n % 2
         IN  IF rest = 0 THEN F32Round(keep, e + 1)
             ELSE \* an odd n: the dropped bit decides together with the bits below
                  LET sh   == CHOOSE k \in 1..8 : n \div (2 ^ k) < TwoTo24
                                                  /\ n \div (2 ^ k) >= TwoTo23
                      q    == n \div (2 ^ sh)
                      r    == n % (2 ^ sh)
                      half == 2 ^ (sh - 1)
                      up   == r > half \/ (r = half /\ q % 2 = 1)
                  IN  IF up THEN F32Round(q + 1, e + sh) ELSE [m |-> q, e |-> e + sh]

\* number of bit pairs of a positive integer: the least p with n < 4^p
BitPairs(n) == CHOOSE p \in 1..15 : n < 4 ^ p /\ (p = 1 \/ n >= 4 ^ (p - 1))

\* std::sqrt on a float holding the integer n (0 <= n < 2^24), correctly
\* rounded: 24 result bits by the digit recurrence, then the rounding bit
RECURSIVE SqrtDigits(_, _, _, _, _)
SqrtDigits(n, pairs, k, root, rem) ==
    IF k > 24 THEN [root |-> root, rem |-> rem]
    ELSE LET pair  == IF k <= pairs THEN (n \div (4 ^ (pairs - k))) % 4 ELSE 0
             r4    == 4 * rem + pair
             trial == 4 * root + 1
         IN  IF r4 >= trial
             THEN SqrtDigits(n, pairs, k + 1, 2 * root + 1, r4 - trial)
             ELSE SqrtDigits(n, pairs, k + 1, 2 * root, r4)

F32Sqrt(n) ==
    IF n = 0 THEN [m |-> 0, e |-> 0]
    ELSE LET pairs == BitPairs(n)
             d     == SqrtDigits(n, pairs, 1, 0, 0)
         IN  IF d.rem > d.root
             THEN F32Round(d.root + 1, pairs - 24)
             ELSE [m |-> d.root, e |-> pairs - 24]

\* the float product f * f
F32Square(f) ==
    IF f.m = 0 THEN f
    ELSE LET a   == f.m \div 4096
             b   == f.m % 4096
             c   == 2 * a * b
             lo0 == (c % 4096) * 4096 + b * b
             hi  == a * a + (c \div 4096) + (lo0 \div TwoTo24)
             lo  == lo0 % TwoTo24
             \* f.m * f.m = hi * 2^24 + lo, with 2^22 <= hi < 2^24
             wide == hi >= TwoTo23
             q    == IF wide THEN hi ELSE 2 * hi + (lo \div TwoTo23)
             r    == IF wide THEN lo ELSE lo % TwoTo23
             half == IF wide THEN TwoTo23 ELSE TwoTo23 \div 2
             ex   == IF wide THEN 2 * f.e + 24 ELSE 2 * f.e + 23
             up   == r > half \/ (r = half /\ q % 2 = 1)
         IN  IF up THEN F32Round(q + 1, ex) ELSE [m |-> q, e |-> ex]

\* the float sum f + k for a float f >= 1 below 2^24 and an integer 0 <= k < 64
F32AddInt(f, k) ==
    IF f.m = 0 THEN F32Round(k, 0)
    ELSE F32Round(f.m + k * (2 ^ (-f.e)), f.e)

\* n / 2^scale < f, for an integer 0 <= n < 2^30 (the left side is exact)
ScaledLessThanF32(n, scale, f) ==
    LET ex == f.e + scale
    IN  IF f.m = 0 THEN FALSE
        ELSE IF ex >= 7 THEN TRUE
        ELSE IF ex >= 0 THEN n < f.m * (2 ^ ex)
        ELSE IF ex <= -30 THEN n <= 0
        ELSE n <= (f.m - 1) \div (2 ^ (-ex))

\* n / 2^scale <= f, for an integer 0 <= n < 2^30
ScaledLeqF32(n, scale, f) ==
    LET ex == f.e + scale
    IN  IF f.m = 0 THEN n <= 0
        ELSE IF ex >= 7 THEN TRUE
        ELSE IF ex >= 0 THEN n <= f.m * (2 ^ ex)
        ELSE IF ex <= -30 THEN n <= 0
        ELSE n <= f.m \div (2 ^ (-ex))

(***************************************************************************)
(* bresenhamLine.  The loop state is [x, y, err, points, done]; the       *)
(* locals fixed before the loop are the record ln = [x1, y1, dx, dy, sx,  *)
(* sy].  The while (true) loop is unfolded by repeated halving so that    *)
(* a long line does not need a deep evaluation stack: BresenhamRun        *)
(* performs n iterations, BresenhamLoop runs until the break.             *)
(***************************************************************************)
\* variant: the end-point test comes before the push_back
BresenhamStepBreakFirst(s, ln) ==
    IF s.done THEN s
    ELSE LET e2     == 2 * s.err
             stepX  == e2 > -ln.dy
             stepY  == e2 < ln.dx
             errX   == IF stepX THEN s.err - ln.dy ELSE s.err
             errY   == IF stepY THEN errX + ln.dx ELSE errX
         IN  IF s.x = ln.x1 /\ s.y = ln.y1
             THEN [s EXCEPT !.done = TRUE]
             ELSE [x      |-> IF stepX THEN s.x + ln.sx ELSE s.x,
                   y      |-> IF stepY THEN s.y + ln.sy ELSE s.y,
                   err    |-> errY,
                   points |-> Append(s.points, Point(s.x, s.y)),
                   done   |-> FALSE]

\* one iteration of the while (true) loop (nothing happens after the break)
BresenhamStep(s, ln) ==
    IF s.done THEN s
    ELSE LET pushed == Append(s.points, Point(s.x, s.y))
             e2     == 2 * s.err
             stepX  == e2 > -ln.dy
             stepY  == e2 < ln.dx
             errX   == IF stepX THEN s.err - ln.dy ELSE s.err
             errY   == IF stepY THEN errX + ln.dx ELSE errX
         IN  IF s.x = ln.x1 /\ s.y = ln.y1
             THEN [s EXCEPT !.points = pushed, !.done = TRUE]
             ELSE [x      |-> IF stepX THEN s.x + ln.sx ELSE s.x,
                   y      |-> IF stepY THEN s.y + ln.sy ELSE s.y,
                   err    |-> errY,
                   points |-> pushed,
                   done   |-> FALSE]

RECURSIVE BresenhamRun(_, _, _)
BresenhamRun(s, ln, n) ==
    IF n <= 1 THEN BresenhamStep(s, ln)
    ELSE LET half  == n \div 2
             first == BresenhamRun(s, ln, half)
         IN  IF first.done THEN first ELSE BresenhamRun(first, ln, n - half)

RECURSIVE BresenhamLoop(_, _, _)
BresenhamLoop(s, ln, n) ==
    LET ran == BresenhamRun(s, ln, n)
    IN  IF ran.done THEN ran.points ELSE BresenhamLoop(ran, ln, 2 * n)

\* variant: the end points are ordered by x before the loop
bresenhamLineOrdered(x0, y0, x1, y1) ==
    LET ax == IF x0 <= x1 THEN x0 ELSE x1
        ay == IF x0 <= x1 THEN y0 ELSE y1
        bx == IF x0 <= x1 THEN x1 ELSE x0
        by == IF x0 <= x1 THEN y1 ELSE y0
        dx == Abs(bx - ax)
        dy == Abs(by - ay)
        sx == IF ax < bx THEN 1 ELSE -1
        sy == IF ay < by THEN 1 ELSE -1
    IN  BresenhamLoop([x |-> ax, y |-> ay, err |-> dx - dy, points |-> <<>>,
                       done |-> FALSE],
                      [x1 |-> bx, y1 |-> by, dx |-> dx, dy |-> dy, sx |-> sx, sy |-> sy],
                      1)

bresenhamLine(x0, y0, x1, y1) ==
    LET dx == Abs(x1 - x0)
        dy == Abs(y1 - y0)
        sx == IF x0 < x1 THEN 1 ELSE -1
        sy == IF y0 < y1 THEN 1 ELSE -1
    IN  BresenhamLoop([x |-> x0, y |-> y0, err |-> dx - dy, points |-> <<>>,
                       done |-> FALSE],
                      [x1 |-> x1, y1 |-> y1, dx |-> dx, dy |-> dy, sx |-> sx, sy |-> sy],
                      1)

(***************************************************************************)
(* midpointCircle.  The loop state is [x, y, d, points]; the loop is      *)
(* unfolded the same way.                                                 *)
(***************************************************************************)
\* variant: octant 8 repeats octant 6
addSymmetricPointsRepeated(points, centerX, centerY, x, y) ==
    points \o << Point(centerX + x, centerY + y),
                 Point(centerX - x, centerY + y),
                 Point(centerX + x, centerY - y),
                 Point(centerX - x, centerY - y),
                 Point(centerX + y, centerY + x),
                 Point(centerX - y, centerY + x),
                 Point(centerX + y, centerY - x),
                 Point(centerX - y, centerY + x) >>

\* the lambda addSymmetricPoints: the eight mirrored points, in push order
addSymmetricPoints(points, centerX, centerY, x, y) ==
    points \o << Point(centerX + x, centerY + y),
                 Point(centerX - x, centerY + y),
                 Point(centerX + x, centerY - y),
                 Point(centerX - x, centerY - y),
                 Point(centerX + y, centerY + x),
                 Point(centerX - y, centerY + x),
                 Point(centerX + y, centerY - x),
                 Point(centerX - y, centerY - x) >>

\* variant: the loop condition is x <= y
MidpointStepInclusive(s, centerX, centerY) ==
    IF s.x <= s.y
    THEN LET xNext == s.x + 1
             yNext == IF s.d < 0 THEN s.y ELSE s.y - 1
             dNext == IF s.d < 0 THEN s.d + 2 * xNext + 1
                                 ELSE s.d + 2 * (xNext - yNext) + 1
         IN  [x |-> xNext, y |-> yNext, d |-> dNext,
              points |-> addSymmetricPoints(s.points, centerX, centerY, xNext, yNext)]
    ELSE s

\* one iteration of the while (x < y) loop (nothing happens once x >= y)
MidpointStep(s, centerX, centerY) ==
    IF s.x < s.y
    THEN LET xNext == s.x + 1
             yNext == IF s.d < 0 THEN s.y ELSE s.y - 1
             dNext == IF s.d < 0 THEN s.d + 2 * xNext + 1
                                 ELSE s.d + 2 * (xNext - yNext) + 1
         IN  [x |-> xNext, y |-> yNext, d |-> dNext,
              points |-> addSymmetricPoints(s.points, centerX, centerY, xNext, yNext)]
    ELSE s

RECURSIVE MidpointRun(_, _, _, _)
MidpointRun(s, centerX, centerY, n) ==
    IF n <= 1 THEN MidpointStep(s, centerX, centerY)
    ELSE LET half  == n \div 2
             first == MidpointRun(s, centerX, centerY, half)
         IN  IF first.x < first.y
             THEN MidpointRun(first, centerX, centerY, n - half)
             ELSE first

RECURSIVE MidpointLoop(_, _, _, _)
MidpointLoop(s, centerX, centerY, n) ==
    LET ran == MidpointRun(s, centerX, centerY, n)
    IN  IF ran.x < ran.y
        THEN MidpointLoop(ran, centerX, centerY, 2 * n)
        ELSE ran.points

\* variant: the initial addSymmetricPoints(x, y) call is missing
midpointCircleNoInitial(centerX, centerY, radius) ==
    MidpointLoop([x |-> 0, y |-> radius, d |-> 1 - radius, points |-> <<>>],
                 centerX, centerY, 1)

midpointCircle(centerX, centerY, radius) ==
    MidpointLoop([x |-> 0, y |-> radius, d |-> 1 - radius,
                  points |-> addSymmetricPoints(<<>>, centerX, centerY, 0, radius)],
                 centerX, centerY, 1)

(***************************************************************************)
(* CityConfig, CityData and the canvas                                    *)
(***************************************************************************)
\* main: SCREEN_WIDTH, SCREEN_HEIGHT, passed to CityGenerator(width, height)
screenWidth == 800

screenHeight == 600

\* CityData() and CityData::clear()
EmptyCityData ==
    [roads |-> <<>>, parks |-> <<>>, fountain |-> <<>>, buildings |-> <<>>,
     isGenerated |-> FALSE]

\* CityConfig::updateStandardBuildingSize(): cellSize * 0.40f with
\* cellSize = (800 - 2 * 50) / layoutSize; the float result is the whole
\* number 280 / layoutSize for the layout sizes 5, 7, 10, 14 and 20
StandardBuildingSize(layoutSize) == (2 * (800 - 2 * 50)) \div (5 * layoutSize)

\* CityConfig(): the defaults of the constructor
DefaultConfig ==
    [numBuildings    |-> 20,
     layoutSize      |-> 10,
     roadPattern     |-> "GRID",
     roadWidth       |-> 14,
     skylineType     |-> "MIXED",
     parkRadius      |-> 40,
     numParks        |-> 3,
     fountainRadius  |-> 25,
     useStandardSize |-> TRUE,
     standardWidth   |-> StandardBuildingSize(10),
     standardDepth   |-> StandardBuildingSize(10),
     textureTheme    |-> "MODERN",
     view3D          |-> FALSE]

\* the application before the first iteration of the render loop: the
\* InputHandler and the CityRenderer as constructed, no call made yet
AppIdle ==
    /\ cityConfig = DefaultConfig
    /\ keysPressed = {}
    /\ down = {}
    /\ genRequested = FALSE
    /\ lastView3D = FALSE
    /\ buffers = <<>>
    /\ frameDraws = <<>>
    /\ loopPc = "input"
    /\ frames = 0
    /\ previous = <<>>

(***************************************************************************)
(* Circles stored as boundary points: center by averaging, radius as the  *)
(* largest distance to a boundary point (city_generator.cpp re-derives    *)
(* them in generateParks, isValidBuildingPosition and the road filter).   *)
(***************************************************************************)
\* the float accumulation  sum += point.x  over points[lo..hi]; the partial
\* sums are whole numbers below 2^24, so no addition rounds
RECURSIVE SumCoord(_, _, _, _)
SumCoord(points, lo, hi, axis) ==
    IF lo > hi THEN 0
    ELSE IF lo = hi THEN points[lo][axis]
    ELSE LET mid  == (lo + hi) \div 2
             left == SumCoord(points, lo, mid, axis)
         IN  left + SumCoord(points, mid + 1, hi, axis)

\* centerX /= size: every vector midpointCircle returns sums to size * center
\* (eight mirrored points per step), so the float quotient is that integer
CircleCenter(points) ==
    [x |-> SumCoord(points, 1, Len(points), "x") \div Len(points),
     y |-> SumCoord(points, 1, Len(points), "y") \div Len(points)]

DistanceSquared(px, py, qx, qy) == (px - qx) * (px - qx) + (py - qy) * (py - qy)

\* radius = max over the points of std::sqrt(dx*dx + dy*dy): the float square
\* root is monotonic, so it is the square root of the largest dx*dx + dy*dy
MaxDistanceSquared(points, c) ==
    LET ds == {DistanceSquared(points[k].x, points[k].y, c.x, c.y) : k \in 1..Len(points)}
    IN  CHOOSE m \in ds : \A d \in ds : d <= m

\* struct Circle { float centerX, centerY, radius; } of a non-empty point list
\* (radiusSquared is the float product radius * radius of the filter loop)
CircleOf(points) ==
    LET c == CircleCenter(points)
        r == F32Sqrt(MaxDistanceSquared(points, c))
    IN  [centerX |-> c.x, centerY |-> c.y, radius |-> r, radiusSquared |-> F32Square(r)]

(***************************************************************************)
(* RoadGenerator                                                          *)
(***************************************************************************)
\* RoadGenerator::createRoad: a Road is [points, width]
createRoad(x0, y0, x1, y1, width) ==
    [points |-> bresenhamLine(x0, y0, x1, y1), width |-> width]

\* the grid with loops that stop before i = layoutSize
generateGridRoadsExclusive(cfg) ==
    LET margin  == 50
        spacing == (screenWidth - 2 * margin) \div cfg.layoutSize
        horizontal ==
            [k \in 1..cfg.layoutSize |->
                createRoad(margin, margin + (k - 1) * spacing,
                           screenWidth - margin, margin + (k - 1) * spacing,
                           cfg.roadWidth)]
        vertical ==
            [k \in 1..cfg.layoutSize |->
                createRoad(margin + (k - 1) * spacing, margin,
                           margin + (k - 1) * spacing, screenHeight - margin,
                           cfg.roadWidth)]
    IN  horizontal \o vertical

\* RoadGenerator::generateGridRoads
generateGridRoads(cfg) ==
    LET margin  == 50
        spacing == (screenWidth - 2 * margin) \div cfg.layoutSize
        horizontal ==
            [k \in 1..(cfg.layoutSize + 1) |->
                createRoad(margin, margin + (k - 1) * spacing,
                           screenWidth - margin, margin + (k - 1) * spacing,
                           cfg.roadWidth)]
        vertical ==
            [k \in 1..(cfg.layoutSize + 1) |->
                createRoad(margin + (k - 1) * spacing, margin,
                           margin + (k - 1) * spacing, screenHeight - margin,
                           cfg.roadWidth)]
    IN  horizontal \o vertical

\* static_cast<int>(maxRadius * cos(angle)) and static_cast<int>(maxRadius *
\* sin(angle)) for angle = 2 * pi * spoke / numSpokes and maxRadius = 250 (the
\* 800x600 canvas), tabulated for 5 and 10 spokes
SpokeOffset(numSpokes, spoke) ==
    IF numSpokes = 5
    THEN << <<250, 0>>, <<77, 237>>, <<-202, 146>>, <<-202, -146>>,
            <<77, -237>> >>[spoke + 1]
    ELSE << <<250, 0>>, <<202, 146>>, <<77, 237>>, <<-77, 237>>, <<-202, 146>>,
            <<-250, 0>>, <<-202, -146>>, <<-77, -237>>, <<77, -237>>,
            <<202, -146>> >>[spoke + 1]

\* the body of the rings loop of generateRadialRoads for one ring
RingRoads(cfg, ring, numRings, maxRadius, centerX, centerY) ==
    LET margin       == 50
        radius       == (maxRadius * ring) \div numRings
        circle       == midpointCircle(centerX, centerY, radius)
        validPoints  == SelectSeq(circle,
                            LAMBDA pt : /\ pt.x >= margin
                                        /\ pt.x <= screenWidth - margin
                                        /\ pt.y >= margin
                                        /\ pt.y <= screenHeight - margin)
        size         == Len(validPoints)
    IN  [k \in 1..((size + 7) \div 8) |->
            LET from == validPoints[8 * (k - 1) + 1]
                to   == validPoints[((8 * (k - 1) + 8) % size) + 1]
            IN  createRoad(from.x, from.y, to.x, to.y, cfg.roadWidth)]

RECURSIVE RingsFrom(_, _, _, _, _, _)
RingsFrom(cfg, ring, numRings, maxRadius, centerX, centerY) ==
    IF ring > numRings THEN <<>>
    ELSE RingRoads(cfg, ring, numRings, maxRadius, centerX, centerY)
            \o RingsFrom(cfg, ring + 1, numRings, maxRadius, centerX, centerY)

\* RoadGenerator::generateRadialRoads
generateRadialRoads(cfg) ==
    LET centerX   == screenWidth \div 2
        centerY   == screenHeight \div 2
        numSpokes == cfg.layoutSize
        maxRadius == (Min(screenWidth, screenHeight) \div 2) - 50
        margin    == 50
        spokes ==
            [k \in 1..numSpokes |->
                LET off  == SpokeOffset(numSpokes, k - 1)
                    endX == Max(margin, Min(screenWidth - margin, centerX + off[1]))
                    endY == Max(margin, Min(screenHeight - margin, centerY + off[2]))
                IN  createRoad(centerX, centerY, endX, endY, cfg.roadWidth)]
    IN  spokes \o RingsFrom(cfg, 1, cfg.layoutSize \div 2, maxRadius, centerX, centerY)

\* RoadGenerator::generateRandomRoads.  The values the generator draws are
\* rnd.nodes (the layoutSize * 2 results of randomPoint()) and rnd.picks (the
\* layoutSize * 3 pairs <<idx1, idx2>> drawn from nodeDist)
generateRandomRoads(cfg, rnd) ==
    LET nodes == rnd.nodes \o << Point(100, 100),
                                 Point(screenWidth - 100, 100),
                                 Point(100, screenHeight - 100),
                                 Point(screenWidth - 100, screenHeight - 100) >>
        drawn == SelectSeq(rnd.picks, LAMBDA pick : pick[1] # pick[2])
    IN  [k \in 1..Len(drawn) |->
            createRoad(nodes[drawn[k][1] + 1].x, nodes[drawn[k][1] + 1].y,
                       nodes[drawn[k][2] + 1].x, nodes[drawn[k][2] + 1].y,
                       cfg.roadWidth)]

\* RoadGenerator::generateRoads
generateRoads(cfg, rnd) ==
    CASE cfg.roadPattern = "GRID"   -> generateGridRoads(cfg)
      [] cfg.roadPattern = "RADIAL" -> generateRadialRoads(cfg)
      [] cfg.roadPattern = "RANDOM" -> generateRandomRoads(cfg, rnd)
      [] OTHER                      -> generateGridRoads(cfg)

\* the circles of the filter: one per non-empty park, then the fountain
ObstacleCircles(parks, fountain) ==
    LET nonEmpty == SelectSeq(parks, LAMBDA park : park # <<>>)
    IN  [k \in 1..Len(nonEmpty) |-> CircleOf(nonEmpty[k])]
            \o (IF fountain # <<>> THEN <<CircleOf(fountain)>> ELSE <<>>)

\* the test of the filter loop: distanceSquared <= radiusSquared for some
\* circle, both sides float (distanceSquared is a whole number, exact)
InsideCircle(roadPoint, circles) ==
    \E c \in 1..Len(circles) :
        ScaledLeqF32(DistanceSquared(roadPoint.x, roadPoint.y,
                                     circles[c].centerX, circles[c].centerY),
                     0, circles[c].radiusSquared)

\* the filter loop without the test for an empty filteredPoints
FilterRoadsKeepEmpty(allRoads, circles) ==
    [k \in 1..Len(allRoads) |->
        [points |-> SelectSeq(allRoads[k].points, LAMBDA p : ~InsideCircle(p, circles)),
         width  |-> allRoads[k].width]]

\* the filter loop over the generated roads
FilterRoads(allRoads, circles) ==
    LET filtered ==
            [k \in 1..Len(allRoads) |->
                [points |-> SelectSeq(allRoads[k].points,
                                      LAMBDA p : ~InsideCircle(p, circles)),
                 width  |-> allRoads[k].width]]
    IN  SelectSeq(filtered, LAMBDA road : road.points # <<>>)

\* RoadGenerator::generateRoadsAvoidingObstacles
generateRoadsAvoidingObstacles(cfg, parks, fountain, rnd) ==
    FilterRoads(generateRoads(cfg, rnd), ObstacleCircles(parks, fountain))

(***************************************************************************)
(* CityGenerator::generateParks                                           *)
(***************************************************************************)
\* CHECK 1 with the spacing of one radius in place of 2.5 radii
TooCloseToParkOneRadius(x, y, existingPark, cfg) ==
    LET c        == CircleCenter(existingPark)
        distance == F32Sqrt(DistanceSquared(x, y, c.x, c.y))
    IN  ~ScaledLeqF32(cfg.parkRadius, 0, distance)

\* CHECK 1 for one existing park: distance < minParkDistance, with
\* distance = std::sqrt(dx*dx + dy*dy) and minParkDistance = parkRadius * 2.5f
TooCloseToPark(x, y, existingPark, cfg) ==
    LET c        == CircleCenter(existingPark)
        distance == F32Sqrt(DistanceSquared(x, y, c.x, c.y))
    IN  ~ScaledLeqF32(5 * cfg.parkRadius, 1, distance)

\* CHECK 2 with the fountain radius alone as the minimum distance
TooCloseToFountainRadiusOnly(x, y, cfg) ==
    LET distance == F32Sqrt(DistanceSquared(x, y, screenWidth \div 2,
                                            screenHeight \div 2))
    IN  ~ScaledLeqF32(cfg.fountainRadius, 0, distance)

\* CHECK 2: distance < minFountainDistance, measured from the canvas center,
\* with minFountainDistance = parkRadius + fountainRadius + 30.0f
TooCloseToFountain(x, y, cfg) ==
    LET distance == F32Sqrt(DistanceSquared(x, y, screenWidth \div 2,
                                            screenHeight \div 2))
    IN  ~ScaledLeqF32(cfg.parkRadius + cfg.fountainRadius + 30, 0, distance)

\* validPosition at the end of one iteration of the placement loop
validPosition(x, y, parks, cfg) ==
    /\ \A k \in 1..Len(parks) :
            parks[k] = <<>> \/ ~TooCloseToPark(x, y, parks[k], cfg)
    /\ ~(cfg.fountainRadius > 0 /\ TooCloseToFountain(x, y, cfg))

\* the loop condition without the attempt budget
ParkLoopRunsNoBudget(cfg, placed, tried) ==
    placed < cfg.numParks

\* the loop condition  i < config.numParks && attempts < maxAttempts
ParkLoopRuns(cfg, placed, tried) ==
    /\ placed < cfg.numParks
    /\ tried < cfg.numParks * 100

\* after the loop: the central fountain is added if requested
WithFountain(data, cfg) ==
    [data EXCEPT !.fountain = IF cfg.fountainRadius > 0
                              THEN midpointCircle(screenWidth \div 2, screenHeight \div 2,
                                                  cfg.fountainRadius)
                              ELSE @]

\* generateParks returns at once when no parks are requested
ParksSkip ==
    /\ pc = "parks"
    /\ config.numParks = 0
    /\ pc' = "roads"
    /\ UNCHANGED <<config, cityData, attempts, i>>
    /\ UNCHANGED <<rasterVars, appVars>>

\* one iteration of the placement loop, for a position (x, y) drawn from
\* xDistMargin, yDistMargin; the iteration that ends the loop goes on to the
\* fountain and generateParks returns
ParkAttempt(x, y) ==
    /\ pc = "parks"
    /\ config.numParks # 0
    /\ ParkLoopRuns(config, i, attempts)
    /\ x >= config.parkRadius + 50
    /\ x <= screenWidth - (config.parkRadius + 50)
    /\ y >= config.parkRadius + 50
    /\ y <= screenHeight - (config.parkRadius + 50)
    /\ LET valid  == validPosition(x, y, cityData.parks, config)
           parks  == IF valid
                     THEN Append(cityData.parks, midpointCircle(x, y, config.parkRadius))
                     ELSE cityData.parks
           placed == IF valid THEN i + 1 ELSE i
       IN  IF ParkLoopRuns(config, placed, attempts + 1)
           THEN /\ cityData' = [cityData EXCEPT !.parks = parks]
                /\ i' = placed
                /\ attempts' = attempts + 1
                /\ pc' = pc
           ELSE /\ cityData' = WithFountain([cityData EXCEPT !.parks = parks], config)
                /\ i' = 0
                /\ attempts' = 0
                /\ pc' = "roads"
    /\ UNCHANGED config
    /\ UNCHANGED <<rasterVars, appVars>>

(***************************************************************************)
(* CityGenerator::generateBuildings and isValidBuildingPosition.          *)
(* Building positions and sizes are whole pixels; the box edges           *)
(* x -/+ width / 2.0f may fall on half pixels, so the edges are kept      *)
(* doubled (every float operation on them is exact).                      *)
(***************************************************************************)
\* buildingLeft, buildingRight, buildingTop, buildingBottom, doubled
BuildingBox(x, y, width, depth) ==
    [left |-> 2 * x - width, right |-> 2 * x + width,
     top  |-> 2 * y - depth, bottom |-> 2 * y + depth]

\* the screen boundary test, screenMargin = 60.0f
OutsideScreenMargin(box) ==
    \/ box.left < 2 * 60
    \/ box.right > 2 * (screenWidth - 60)
    \/ box.top < 2 * 60
    \/ box.bottom > 2 * (screenHeight - 60)

\* the AABB test with <= and >= in place of < and >: a gap of exactly the
\* buffer passes
TooCloseToBuildingInclusive(box, existingBuilding) ==
    LET existing == BuildingBox(existingBuilding.x, existingBuilding.y,
                                existingBuilding.width, existingBuilding.depth)
    IN  ~(\/ box.right + 2 * 25 <= existing.left
          \/ box.left - 2 * 25 >= existing.right
          \/ box.bottom + 2 * 25 <= existing.top
          \/ box.top - 2 * 25 >= existing.bottom)

\* 1. the AABB test against one existing building, buildingBuffer = 25.0f
TooCloseToBuilding(box, existingBuilding) ==
    LET existing == BuildingBox(existingBuilding.x, existingBuilding.y,
                                existingBuilding.width, existingBuilding.depth)
    IN  ~(\/ box.right + 2 * 25 < existing.left
          \/ box.left - 2 * 25 > existing.right
          \/ box.bottom + 2 * 25 < existing.top
          \/ box.top - 2 * 25 > existing.bottom)

\* Method 1 with the buffer left out of radiusWithBuffer
CircleNearBoxUnpadded(box, points, buffer) ==
    LET c        == CircleOf(points)
        closestX == Max(box.left - 2 * buffer, Min(2 * c.centerX, box.right + 2 * buffer))
        closestY == Max(box.top - 2 * buffer, Min(2 * c.centerY, box.bottom + 2 * buffer))
        dx       == closestX - 2 * c.centerX
        dy       == closestY - 2 * c.centerY
    IN  ScaledLessThanF32(dx * dx + dy * dy, 2, F32Square(c.radius))

\* Method 1: distanceSquared < radiusWithBuffer * radiusWithBuffer, for the
\* point of the box padded by buffer that is closest to the circle's center
CircleNearBox(box, points, buffer) ==
    LET c        == CircleOf(points)
        closestX == Max(box.left - 2 * buffer, Min(2 * c.centerX, box.right + 2 * buffer))
        closestY == Max(box.top - 2 * buffer, Min(2 * c.centerY, box.bottom + 2 * buffer))
        dx       == closestX - 2 * c.centerX
        dy       == closestY - 2 * c.centerY
        radiusWithBuffer == F32AddInt(c.radius, buffer)
    IN  ScaledLessThanF32(dx * dx + dy * dy, 2, F32Square(radiusWithBuffer))

\* Method 2 with the box padded by twice the buffer
PointNearBoxWide(box, points, buffer) ==
    \E k \in 1..Len(points) :
        /\ 2 * points[k].x >= box.left - 4 * buffer
        /\ 2 * points[k].x <= box.right + 4 * buffer
        /\ 2 * points[k].y >= box.top - 4 * buffer
        /\ 2 * points[k].y <= box.bottom + 4 * buffer

\* Method 2: some boundary point lies in the box padded by buffer
PointNearBox(box, points, buffer) ==
    \E k \in 1..Len(points) :
        /\ 2 * points[k].x >= box.left - 2 * buffer
        /\ 2 * points[k].x <= box.right + 2 * buffer
        /\ 2 * points[k].y >= box.top - 2 * buffer
        /\ 2 * points[k].y <= box.bottom + 2 * buffer

\* 4. with the box padded by roadBuffer alone
TooCloseToRoadBufferOnly(box, road) ==
    \E k \in 1..Len(road.points) :
        /\ 2 * road.points[k].x >= box.left - 2 * 5
        /\ 2 * road.points[k].x <= box.right + 2 * 5
        /\ 2 * road.points[k].y >= box.top - 2 * 5
        /\ 2 * road.points[k].y <= box.bottom + 2 * 5

\* 4. some point of the road lies in the box padded by roadBuffer = 5.0f plus
\* roadHalfWidth = road.width / 2.0f
TooCloseToRoad(box, road) ==
    \E k \in 1..Len(road.points) :
        /\ 2 * road.points[k].x >= box.left - 2 * 5 - road.width
        /\ 2 * road.points[k].x <= box.right + 2 * 5 + road.width
        /\ 2 * road.points[k].y >= box.top - 2 * 5 - road.width
        /\ 2 * road.points[k].y <= box.bottom + 2 * 5 + road.width

\* CityGenerator::isValidBuildingPosition against the city built so far
isValidBuildingPosition(x, y, width, depth, data) ==
    LET box == BuildingBox(x, y, width, depth)
    IN  /\ ~OutsideScreenMargin(box)
        /\ \A k \in 1..Len(data.buildings) : ~TooCloseToBuilding(box, data.buildings[k])
        /\ \A k \in 1..Len(data.parks) :
                \/ data.parks[k] = <<>>
                \/ /\ ~CircleNearBox(box, data.parks[k], 35)
                   /\ ~PointNearBox(box, data.parks[k], 35)
        /\ data.fountain = <<>> \/ ~CircleNearBox(box, data.fountain, 35)
        /\ \A k \in 1..Len(data.roads) :
                data.roads[k].points = <<>> \/ ~TooCloseToRoad(box, data.roads[k])

\* the switch with the SKYSCRAPER remainder mapped to low-rise
BuildingTypeForLowRemainder(skylineType, typeChoice) ==
    CASE skylineType = "LOW_RISE"   -> "LOW_RISE"
      [] skylineType = "MID_RISE"   -> "MID_RISE"
      [] skylineType = "MIXED"      ->
            IF typeChoice = 0 THEN "LOW_RISE"
            ELSE IF typeChoice = 1 THEN "MID_RISE" ELSE "HIGH_RISE"
      [] skylineType = "SKYSCRAPER" ->
            IF typeChoice <= 1 THEN "HIGH_RISE" ELSE "LOW_RISE"

\* the switch on config.skylineType: the building type for the drawn typeChoice
BuildingTypeFor(skylineType, typeChoice) ==
    CASE skylineType = "LOW_RISE"   -> "LOW_RISE"
      [] skylineType = "MID_RISE"   -> "MID_RISE"
      [] skylineType = "MIXED"      ->
            IF typeChoice = 0 THEN "LOW_RISE"
            ELSE IF typeChoice = 1 THEN "MID_RISE" ELSE "HIGH_RISE"
      [] skylineType = "SKYSCRAPER" ->
            IF typeChoice <= 1 THEN "HIGH_RISE" ELSE "MID_RISE"

\* sample heights drawn from lowRiseHeight [10, 30), midRiseHeight [40, 100)
\* and highRiseHeight [120, 250)
HeightDraws(type) ==
    CASE type = "LOW_RISE"  -> {10, 29}
      [] type = "MID_RISE"  -> {40, 99}
      [] type = "HIGH_RISE" -> {120, 249}

\* the loop condition without the attempt budget
BuildingLoopRunsNoBudget(cfg, buildings, tried) ==
    Len(buildings) < cfg.numBuildings

\* the loop condition of generateBuildings
BuildingLoopRuns(cfg, buildings, tried) ==
    /\ Len(buildings) < cfg.numBuildings
    /\ tried < cfg.numBuildings * 50

\* the loop iteration with the new building put in place of the earlier ones
BuildingAttemptReplacing(x, y, width, depth) ==
    /\ pc = "buildings"
    /\ config.numBuildings # 0
    /\ BuildingLoopRuns(config, cityData.buildings, attempts)
    /\ x >= 80 /\ x <= screenWidth - 80
    /\ y >= 80 /\ y <= screenHeight - 80
    /\ LET w == IF config.useStandardSize THEN config.standardWidth ELSE width
           d == IF config.useStandardSize THEN config.standardDepth ELSE depth
       IN  \E buildings \in
                (IF ~isValidBuildingPosition(x, y, w, d, cityData)
                 THEN {cityData.buildings}
                 ELSE {Append(<<>>,
                              [x |-> x, y |-> y, width |-> w, depth |-> d,
                               height |-> height,
                               type |-> BuildingTypeFor(config.skylineType, typeChoice)]) :
                          <<typeChoice, height>> \in
                              {th \in (0..2) \X (10..249) :
                                  th[2] \in HeightDraws(BuildingTypeFor(config.skylineType,
                                                                        th[1]))}}) :
                IF BuildingLoopRuns(config, buildings, attempts + 1)
                THEN /\ cityData' = [cityData EXCEPT !.buildings = buildings]
                     /\ attempts' = attempts + 1
                     /\ pc' = pc
                ELSE /\ cityData' = [cityData EXCEPT !.buildings = buildings,
                                                     !.isGenerated = TRUE]
                     /\ attempts' = 0
                     /\ pc' = "idle"
    /\ UNCHANGED <<config, i>>
    /\ UNCHANGED <<rasterVars, appVars>>

\* one iteration of the placement loop: the position (x, y) is drawn from
\* xDistBetter, yDistBetter; width and depth count only for random sizes; a
\* valid position then draws typeChoice from typeDist and a height.  After
\* the iteration that ends the loop generateBuildings returns and
\* generateCity marks the city as generated
BuildingAttempt(x, y, width, depth) ==
    /\ pc = "buildings"
    /\ config.numBuildings # 0
    /\ BuildingLoopRuns(config, cityData.buildings, attempts)
    /\ x >= 80 /\ x <= screenWidth - 80
    /\ y >= 80 /\ y <= screenHeight - 80
    /\ LET w == IF config.useStandardSize THEN config.standardWidth ELSE width
           d == IF config.useStandardSize THEN config.standardDepth ELSE depth
       IN  \E buildings \in
                (IF ~isValidBuildingPosition(x, y, w, d, cityData)
                 THEN {cityData.buildings}
                 ELSE {Append(cityData.buildings,
                              [x |-> x, y |-> y, width |-> w, depth |-> d,
                               height |-> height,
                               type |-> BuildingTypeFor(config.skylineType, typeChoice)]) :
                          <<typeChoice, height>> \in
                              {th \in (0..2) \X (10..249) :
                                  th[2] \in HeightDraws(BuildingTypeFor(config.skylineType,
                                                                        th[1]))}}) :
                IF BuildingLoopRuns(config, buildings, attempts + 1)
                THEN /\ cityData' = [cityData EXCEPT !.buildings = buildings]
                     /\ attempts' = attempts + 1
                     /\ pc' = pc
                ELSE /\ cityData' = [cityData EXCEPT !.buildings = buildings,
                                                     !.isGenerated = TRUE]
                     /\ attempts' = 0
                     /\ pc' = "idle"
    /\ UNCHANGED <<config, i>>
    /\ UNCHANGED <<rasterVars, appVars>>

(***************************************************************************)
(* CityGenerator::generateCity                                            *)
(***************************************************************************)
\* the call with a clear() that leaves isGenerated as it was
GenerateCityBeginKeepFlag ==
    /\ pc = "idle"
    /\ cityData' = [EmptyCityData EXCEPT !.isGenerated = cityData.isGenerated]
    /\ pc' = "parks"
    /\ attempts' = 0
    /\ i' = 0
    /\ UNCHANGED config
    /\ UNCHANGED <<rasterVars, appVars>>

\* the call generateCity(config): cityData.clear(), then generateParks starts
GenerateCityBegin ==
    /\ pc = "idle"
    /\ cityData' = EmptyCityData
    /\ pc' = "parks"
    /\ attempts' = 0
    /\ i' = 0
    /\ UNCHANGED config
    /\ UNCHANGED <<rasterVars, appVars>>

\* the roads step without the obstacle filter
GenerateRoadsUnfiltered(rnd) ==
    /\ pc = "roads"
    /\ cityData' = [cityData EXCEPT !.roads = generateRoads(config, rnd)]
    /\ pc' = "buildings"
    /\ UNCHANGED <<config, attempts, i>>
    /\ UNCHANGED <<rasterVars, appVars>>

\* cityData.roads = roadGen.generateRoadsAvoidingObstacles(config, parks, fountain)
GenerateRoads(rnd) ==
    /\ pc = "roads"
    /\ cityData' = [cityData EXCEPT
            !.roads = generateRoadsAvoidingObstacles(config, cityData.parks,
                                                     cityData.fountain, rnd)]
    /\ pc' = "buildings"
    /\ UNCHANGED <<config, attempts, i>>
    /\ UNCHANGED <<rasterVars, appVars>>

\* generateBuildings returns at once when no buildings are requested, and
\* generateCity marks the city as generated
BuildingsSkip ==
    /\ pc = "buildings"
    /\ config.numBuildings = 0
    /\ cityData' = [cityData EXCEPT !.isGenerated = TRUE]
    /\ pc' = "idle"
    /\ UNCHANGED <<config, attempts, i>>
    /\ UNCHANGED <<rasterVars, appVars>>

(***************************************************************************)
(* Calls of the two primitives: the arguments are drawn when the          *)
(* behaviour starts, the call computes the returned vector.               *)
(***************************************************************************)
MaxCoord == 4

MaxRadius == 100

LineCoords == (-MaxCoord)..MaxCoord

\* every short line of the square, plus the full-span roads of the 800x600 canvas
LineArgs ==
    (LineCoords \X LineCoords \X LineCoords \X LineCoords)
        \cup {<<0, 0, 600, 0>>, <<0, 0, 0, 400>>, <<0, 0, 600, 600>>,
              <<50, 190, 750, 190>>, <<400, 300, 650, 300>>}

CircleArgs == {0, 400} \X {0, 300} \X (0..MaxRadius)

\* a call bresenhamLine(x0, y0, x1, y1); a returned line is never empty
CallBresenhamLine ==
    /\ linePoints = <<>>
    /\ linePoints' = bresenhamLine(lineArgs[1], lineArgs[2], lineArgs[3], lineArgs[4])
    /\ UNCHANGED <<lineArgs, circleArgs, circlePoints>>
    /\ UNCHANGED <<cityVars, appVars>>

\* a call midpointCircle(centerX, centerY, radius); a returned circle is never empty
CallMidpointCircle ==
    /\ circlePoints = <<>>
    /\ circlePoints' = midpointCircle(circleArgs[1], circleArgs[2], circleArgs[3])
    /\ UNCHANGED <<lineArgs, linePoints, circleArgs>>
    /\ UNCHANGED <<cityVars, appVars>>

\* no city is being generated: the generator as constructed
CityIdle ==
    /\ config = DefaultConfig
    /\ cityData = EmptyCityData
    /\ pc = "idle"
    /\ attempts = 0
    /\ i = 0

InitLine ==
    /\ lineArgs \in LineArgs
    /\ linePoints = <<>>
    /\ circleArgs = <<0, 0, 0>>
    /\ circlePoints = <<>>
    /\ CityIdle
    /\ AppIdle

InitCircle ==
    /\ lineArgs = <<0, 0, 0, 0>>
    /\ linePoints = <<>>
    /\ circleArgs \in CircleArgs
    /\ circlePoints = <<>>
    /\ CityIdle
    /\ AppIdle

SpecLine == InitLine /\ [][CallBresenhamLine]_vars

SpecCircle == InitCircle /\ [][CallMidpointCircle]_vars

\* both primitives called on degenerate and near-degenerate arguments
DegenerateLineArgs ==
    {<<p[1], p[2], p[1], p[2]>> : p \in LineCoords \X LineCoords}
        \cup {<<0, 0, 1, 0>>, <<400, 300, 400, 300>>}

InitRaster ==
    /\ lineArgs \in DegenerateLineArgs
    /\ linePoints = <<>>
    /\ circleArgs \in {0, 400} \X {0, 300} \X {0, 1}
    /\ circlePoints = <<>>
    /\ CityIdle
    /\ AppIdle

NextRaster == CallBresenhamLine \/ CallMidpointCircle

SpecRaster == InitRaster /\ [][NextRaster]_vars

(***************************************************************************)
(* The configurations generated and the values drawn from the random      *)
(* engines.                                                               *)
(***************************************************************************)
MaxParks == 2

MaxBuildings == 2

\* InputHandler: a layout size change is followed by updateStandardBuildingSize()
WithLayout(cfg, layoutSize) ==
    [cfg EXCEPT !.layoutSize = layoutSize,
                !.standardWidth = StandardBuildingSize(layoutSize),
                !.standardDepth = StandardBuildingSize(layoutSize)]

\* one park of radius 15, the fountain, one building, random roads
BaseConfig ==
    [WithLayout(DefaultConfig, 5) EXCEPT !.roadPattern = "RANDOM", !.numParks = 1,
                                         !.numBuildings = 1, !.parkRadius = 15]

\* nothing but roads and the fountain radius
BareConfig == [BaseConfig EXCEPT !.numParks = 0, !.numBuildings = 0]

\* park counts with and without the fountain, no buildings
ParkConfigs ==
    {[BaseConfig EXCEPT !.numParks = n, !.parkRadius = 10, !.fountainRadius = f,
                        !.numBuildings = 0] :
        n \in 0..MaxParks, f \in {0, 25}}

\* the three road patterns around one park, the fountain and one building
PatternConfigs ==
    {[BaseConfig EXCEPT !.roadPattern = p] : p \in {"GRID", "RADIAL", "RANDOM"}}

\* building counts, no parks
BuildingConfigs ==
    {[BaseConfig EXCEPT !.numParks = 0, !.numBuildings = n,
                        !.skylineType = "LOW_RISE"] :
        n \in 0..MaxBuildings}

\* random building sizes, one building
SizeConfigs == {[BaseConfig EXCEPT !.numParks = 0, !.useStandardSize = FALSE]}

\* the skyline policies, one building each
SkylineConfigs ==
    {[BaseConfig EXCEPT !.numParks = 0, !.skylineType = s] :
        s \in {"LOW_RISE", "MID_RISE", "SKYSCRAPER", "MIXED"}}

\* positions drawn for parks
ParkSpots ==
    {<<200, 175>>, <<215, 175>>, <<225, 175>>, <<400, 330>>, <<465, 300>>}

\* positions drawn for buildings
BuildingSpots ==
    {<<260, 260>>, <<230, 260>>, <<300, 430>>, <<381, 430>>, <<382, 430>>,
     <<400, 410>>}

\* <<width, depth>> drawn from widthDist, depthDist [20, 60)
RandomSizes == {<<20, 20>>, <<45, 30>>}

\* what generateRandomRoads draws for a layout size: nodes in a row on
\* y = 190, and picks <<idx1, idx2>> that are all equal (no road), equal but
\* one, or all different
RoadDraws(layoutSize) ==
    LET nodes == [k \in 1..(2 * layoutSize) |-> Point(190 + 2 * k, 190)]
    IN  {[nodes |-> nodes, picks |-> [k \in 1..(3 * layoutSize) |-> <<0, 0>>]],
         [nodes |-> nodes,
          picks |-> [k \in 1..(3 * layoutSize) |->
                        <<0, IF k = 1 THEN 2 * layoutSize - 1 ELSE 0>>]],
         [nodes |-> nodes,
          picks |-> [k \in 1..(3 * layoutSize) |->
                        <<k % (2 * layoutSize), (k + 1) % (2 * layoutSize)>>]]}

\* the grid and radial generators draw nothing
NoDraws == [nodes |-> <<>>, picks |-> <<>>]

\* the generator as constructed, about to be run on one of the configurations
CityInit(configs) ==
    /\ lineArgs = <<0, 0, 0, 0>>
    /\ linePoints = <<>>
    /\ circleArgs = <<0, 0, 0>>
    /\ circlePoints = <<>>
    /\ config \in configs
    /\ cityData = EmptyCityData
    /\ pc = "idle"
    /\ attempts = 0
    /\ i = 0
    /\ AppIdle

InitParks == CityInit(ParkConfigs \cup {BaseConfig})

InitPatterns == CityInit(PatternConfigs \cup {BareConfig})

InitBuildings ==
    CityInit(BuildingConfigs \cup SizeConfigs \cup SkylineConfigs \cup {BaseConfig})

Next ==
    \/ GenerateCityBegin
    \/ ParksSkip
    \/ \E spot \in ParkSpots : ParkAttempt(spot[1], spot[2])
    \/ \E rnd \in (IF config.roadPattern = "RANDOM"
                   THEN RoadDraws(config.layoutSize) ELSE {NoDraws}) :
            GenerateRoads(rnd)
    \/ \E spot \in BuildingSpots :
            \E size \in (IF config.useStandardSize
                         THEN {<<config.standardWidth, config.standardDepth>>}
                         ELSE RandomSizes) :
                BuildingAttempt(spot[1], spot[2], size[1], size[2])
    \/ BuildingsSkip

SpecParks == InitParks /\ [][Next]_vars

SpecPatterns == InitPatterns /\ [][Next]_vars

SpecBuildings == InitBuildings /\ [][Next]_vars

\* generateCity has returned
Generated == pc = "idle" /\ cityData.isGenerated


\* more parks than the canvas can hold: radius 100, count 10
CrowdedConfig ==
    [BaseConfig EXCEPT !.roadPattern = "GRID", !.parkRadius = 100, !.numParks = 10,
                       !.numBuildings = 0]

\* one park and one building between grid roads
GridConfig == [BaseConfig EXCEPT !.roadPattern = "GRID"]

\* positions drawn for the crowded canvas: a corner of the placement area
\* and a position too close to the fountain for a park of radius 100
CrowdedSpots == {<<150, 150>>, <<400, 150>>}

InitCrowded == CityInit({CrowdedConfig, GridConfig, BareConfig})

NextCrowded ==
    \/ GenerateCityBegin
    \/ ParksSkip
    \/ \E spot \in CrowdedSpots : ParkAttempt(spot[1], spot[2])
    \/ GenerateRoads(NoDraws)
    \/ \E spot \in BuildingSpots :
            BuildingAttempt(spot[1], spot[2], config.standardWidth, config.standardDepth)
    \/ BuildingsSkip

\* what every step of generateCity does to the stage and the attempt
\* counter: it moves to another stage or counts one more attempt
CallAdvances ==
    /\ pc' \in {"idle", "parks", "roads", "buildings"}
    /\ attempts' \in {0, attempts + 1}
    /\ pc' # pc \/ attempts' = attempts + 1

\* generateCity runs its loops without waiting for anything, so the program
\* keeps taking steps; every step of generateCity is a CallAdvances step and
\* one is possible in every state
FairSpecCrowded ==
    InitCrowded /\ [][NextCrowded]_vars /\ WF_<<pc, attempts>>(CallAdvances)

FairSpecBuildings ==
    InitBuildings /\ [][Next]_vars /\ WF_<<pc, attempts>>(CallAdvances)

(***************************************************************************)
(* Repeated calls with different configurations                            *)
(***************************************************************************)
\* configurations passed to successive calls: they differ in the counts, the
\* radii and the road pattern
RegenerateConfigs ==
    {GridConfig,
     BareConfig,
     [BaseConfig EXCEPT !.parkRadius = 10, !.numParks = 2, !.fountainRadius = 0,
                        !.numBuildings = 0],
     [BaseConfig EXCEPT !.numParks = 0, !.numBuildings = 2, !.skylineType = "LOW_RISE"]}

\* the call generateCity(cfg) with another configuration than the last one
GenerateCityWith(cfg) ==
    /\ pc = "idle"
    /\ config' = cfg
    /\ cityData' = EmptyCityData
    /\ pc' = "parks"
    /\ attempts' = 0
    /\ i' = 0
    /\ UNCHANGED <<rasterVars, appVars>>

InitRegenerate == CityInit(RegenerateConfigs)

NextRegenerate ==
    \/ Next
    \/ \E cfg \in RegenerateConfigs : GenerateCityWith(cfg)

SpecRegenerate == InitRegenerate /\ [][NextRegenerate]_vars

\* CityGenerator::hasCity
hasCity == cityData.isGenerated

(***************************************************************************)
(* Grid layouts                                                            *)
(***************************************************************************)
\* the largest layout size of the grid configurations (keys 3/4 move it
\* between 5 and 20)
MaxLayoutSize == 10

\* grid roads alone, for every layout size from 5
GridLayoutConfigs ==
    {[WithLayout(BareConfig, n) EXCEPT !.roadPattern = "GRID"] : n \in 5..MaxLayoutSize}

InitGrid == CityInit(GridLayoutConfigs \cup {GridConfig})

SpecGrid == InitGrid /\ [][Next]_vars

(***************************************************************************)
(* Road meshes                                                             *)
(***************************************************************************)
\* roadTo3DMesh skips a segment with an end point outside the 50 px margin
OutsideMeshMargin(p) ==
    \/ p.x < 50 \/ p.x > screenWidth - 50
    \/ p.y < 50 \/ p.y > screenHeight - 50

\* roadTo3DMesh: one quad (two triangles) for each pair of consecutive points
\* of the road as stored, named here by the two points it joins
roadTo3DMesh(road) ==
    IF Len(road.points) < 2
    THEN <<>>
    ELSE LET segments == [k \in 1..(Len(road.points) - 1) |->
                            [from |-> road.points[k], to |-> road.points[k + 1]]]
         IN  SelectSeq(segments,
                       LAMBDA s : ~OutsideMeshMargin(s.from) /\ ~OutsideMeshMargin(s.to))
(***************************************************************************)
(* The application: InputHandler::processInput, the render loop of main   *)
(* and the buffers of CityRenderer.                                       *)
(***************************************************************************)
\* the keys polled with isKeyJustPressed, in the order of processInput
KeyOrder ==
    <<"H", "P", "1", "2", "3", "4", "B", "R", "5", "6", "L", "T", "7", "8", "9", "0",
      "F", "V", "G">>

Keys == {KeyOrder[k] : k \in 1..Len(KeyOrder)}

\* static_cast<RoadPattern>((current + 1) % 3)
NextRoadPattern(p) ==
    CASE p = "GRID" -> "RADIAL" [] p = "RADIAL" -> "RANDOM" [] p = "RANDOM" -> "GRID"

\* static_cast<SkylineType>((current + 1) % 4)
NextSkylineType(s) ==
    CASE s = "LOW_RISE" -> "MID_RISE" [] s = "MID_RISE" -> "SKYSCRAPER"
      [] s = "SKYSCRAPER" -> "MIXED" [] s = "MIXED" -> "LOW_RISE"

\* static_cast<TextureTheme>((current + 1) % 4)
NextTextureTheme(t) ==
    CASE t = "MODERN" -> "CLASSIC" [] t = "CLASSIC" -> "INDUSTRIAL"
      [] t = "INDUSTRIAL" -> "FUTURISTIC" [] t = "FUTURISTIC" -> "MODERN"

\* the key actions on the counts without std::max and std::min
KeyActionUnclamped(key, c) ==
    CASE key = "1" -> [c EXCEPT !.numBuildings = @ - 5]
      [] key = "2" -> [c EXCEPT !.numBuildings = @ + 5]
      [] key = "9" -> [c EXCEPT !.numParks = @ - 1]
      [] key = "0" -> [c EXCEPT !.numParks = @ + 1]
      [] OTHER -> c

\* the body of the if for one key; H and P print, G does not write the
\* configuration.  The standard size is kept in whole pixels, which is exact
\* for the layout sizes 5, 7, 10, 14 and 20
KeyAction(key, c) ==
    CASE key = "1" -> [c EXCEPT !.numBuildings = Max(1, @ - 5)]
      [] key = "2" -> [c EXCEPT !.numBuildings = Min(100, @ + 5)]
      [] key = "3" -> WithLayout(c, Max(5, c.layoutSize - 1))
      [] key = "4" -> WithLayout(c, Min(20, c.layoutSize + 1))
      [] key = "B" -> [c EXCEPT !.useStandardSize = ~@]
      [] key = "R" -> [c EXCEPT !.roadPattern = NextRoadPattern(@)]
      [] key = "5" -> [c EXCEPT !.roadWidth = Max(2, @ - 2)]
      [] key = "6" -> [c EXCEPT !.roadWidth = Min(20, @ + 2)]
      [] key = "L" -> [c EXCEPT !.skylineType = NextSkylineType(@)]
      [] key = "T" -> [c EXCEPT !.textureTheme = NextTextureTheme(@)]
      [] key = "7" -> [c EXCEPT !.parkRadius = Max(10, @ - 5)]
      [] key = "8" -> [c EXCEPT !.parkRadius = Min(100, @ + 5)]
      [] key = "9" -> [c EXCEPT !.numParks = Max(0, @ - 1)]
      [] key = "0" -> [c EXCEPT !.numParks = Min(10, @ + 1)]
      [] key = "F" -> [c EXCEPT !.fountainRadius = IF @ = 25 THEN 40 ELSE 25]
      [] key = "V" -> [c EXCEPT !.view3D = ~@]
      [] OTHER -> c

\* the keys whose action runs when the recorded state is never written
JustPressedUnrecorded(pressed, recorded) ==
    {key \in Keys : key \in pressed}

\* isKeyJustPressed for the keys the window reports pressed: pressed now and
\* not recorded as pressed by the call before
JustPressed(pressed, recorded) ==
    {key \in Keys : key \in pressed /\ key \notin recorded}

\* the configuration after the ifs of processInput from the k-th key on
RECURSIVE HandleKeys(_, _, _)
HandleKeys(c, just, k) ==
    IF k > Len(KeyOrder) THEN c
    ELSE HandleKeys(IF KeyOrder[k] \in just THEN KeyAction(KeyOrder[k], c) ELSE c,
                    just, k + 1)

\* InputHandler::processInput while the window reports the keys of pressed
\* as pressed: every polled key is recorded, the actions of the keys just
\* pressed run in order, and the G action calls generateCity with the
\* configuration as the earlier keys left it; generateCity starts with
\* cityData.clear()
ProcessInput(pressed) ==
    /\ loopPc = "input"
    /\ pc = "idle"
    /\ LET just == JustPressed(pressed, keysPressed)
           c    == HandleKeys(cityConfig, just, 1)
       IN  /\ cityConfig' = c
           /\ IF "G" \in just
              THEN /\ genRequested' = TRUE
                   /\ previous' = IF cityData.isGenerated
                                  THEN <<[config |-> config, cityData |-> cityData]>>
                                  ELSE previous
                   /\ config' = c
                   /\ cityData' = EmptyCityData
                   /\ pc' = "parks"
                   /\ attempts' = 0
                   /\ i' = 0
              ELSE UNCHANGED <<genRequested, previous, cityVars>>
    /\ keysPressed' = pressed \cap Keys
    /\ down' = pressed
    /\ loopPc' = "update"
    /\ UNCHANGED <<lastView3D, buffers, frameDraws, frames>>
    /\ UNCHANGED rasterVars

\* pointsToVertices: one vertex per point inside the 50 px margin
pointsToVertices(points) ==
    SelectSeq(points, LAMBDA p : ~(\/ p.x < 50 \/ p.x > screenWidth - 50
                                   \/ p.y < 50 \/ p.y > screenHeight - 50))

\* buildingToVertices: six faces of two triangles, in both view modes
BuildingVertexCount == 36

\* CityRenderer::updateCity: VAOs and vertexCounts after cleanup(), one entry
\* per road, per park, for the fountain if it has points, and per building
updateCity(city) ==
    [k \in 1..Len(city.roads) |->
        [kind |-> "road", vertexCount |-> Len(pointsToVertices(city.roads[k].points))]]
    \o [k \in 1..Len(city.parks) |->
        [kind |-> "park", vertexCount |-> Len(pointsToVertices(city.parks[k]))]]
    \o (IF city.fountain # <<>>
        THEN <<[kind |-> "fountain", vertexCount |-> Len(pointsToVertices(city.fountain))]>>
        ELSE <<>>)
    \o [k \in 1..Len(city.buildings) |->
        [kind |-> "building", vertexCount |-> BuildingVertexCount]]

\* CityRenderer::isReady
isReady == buffers # <<>>

\* the update condition that looks at the view mode only
UpdateWantedViewOnly(requested, viewModeChanged) ==
    viewModeChanged

\* the update condition of the render loop
UpdateWanted(requested, viewModeChanged) ==
    requested \/ viewModeChanged

\* the render loop after processInput has returned: lastView3D follows the
\* view mode, and a generation request or a view mode change clears the
\* request and rebuilds the buffers of the city, if there is one
UpdateStep ==
    /\ loopPc = "update"
    /\ pc = "idle"
    /\ LET viewModeChanged == cityConfig.view3D # lastView3D
       IN  /\ lastView3D' = cityConfig.view3D
           /\ IF UpdateWanted(genRequested, viewModeChanged)
              THEN /\ genRequested' = FALSE
                   /\ buffers' = IF hasCity THEN updateCity(cityData) ELSE buffers
              ELSE UNCHANGED <<genRequested, buffers>>
    /\ loopPc' = "render"
    /\ UNCHANGED <<cityConfig, keysPressed, down, frameDraws, frames, previous>>
    /\ UNCHANGED <<rasterVars, cityVars>>

\* the slots of VAOs that a pass binds, from slot lo up to slot hi (counted
\* from 1) and no further than the last buffer
Slots(pass, lo, hi) ==
    [k \in 1..Max(0, Min(hi, Len(buffers)) - lo + 1) |->
        [pass |-> pass, slot |-> lo + k - 1, kind |-> buffers[lo + k - 1].kind]]

\* CityRenderer::render: the offsets come from the sizes of the city; in 2D
\* the road, park and fountain passes bind VAOs, in 3D they draw their own
\* meshes; the building pass binds VAOs from buildingStart on, one per
\* building, in both modes
render(city, view3D) ==
    LET roadCount      == Len(city.roads)
        parkCount      == Len(city.parks)
        fountainOffset == roadCount + parkCount
        fountainCount  == IF city.fountain = <<>> THEN 0 ELSE 1
        buildingStart  == fountainOffset + fountainCount
    IN  (IF view3D THEN <<>>
         ELSE Slots("road", 1, roadCount)
                  \o Slots("park", roadCount + 1, fountainOffset)
                  \o Slots("fountain", fountainOffset + 1, fountainOffset + fountainCount))
        \o Slots("building", buildingStart + 1, buildingStart + Len(city.buildings))

\* the end of an iteration of the render loop: the city is drawn if there is
\* one and the renderer has buffers
RenderStep ==
    /\ loopPc = "render"
    /\ frameDraws' = IF hasCity /\ isReady THEN render(cityData, cityConfig.view3D)
                     ELSE <<>>
    /\ frames' = frames + 1
    /\ loopPc' = "input"
    /\ UNCHANGED <<cityConfig, keysPressed, down, genRequested, lastView3D, buffers,
                   previous>>
    /\ UNCHANGED <<rasterVars, cityVars>>

\* the application with the configuration as key presses have left it
AppInit(configs) ==
    /\ lineArgs = <<0, 0, 0, 0>>
    /\ linePoints = <<>>
    /\ circleArgs = <<0, 0, 0>>
    /\ circlePoints = <<>>
    /\ CityIdle
    /\ cityConfig \in configs
    /\ keysPressed = {}
    /\ down = {}
    /\ genRequested = FALSE
    /\ lastView3D = cityConfig.view3D
    /\ buffers = <<>>
    /\ frameDraws = <<>>
    /\ loopPc = "input"
    /\ frames = 0
    /\ previous = <<>>

(***************************************************************************)
(* Key presses alone                                                      *)
(***************************************************************************)
\* calls of processInput followed
MaxKeyFrames == 3

\* every range at its lower end and at its upper end
LowestConfig ==
    [WithLayout(DefaultConfig, 5) EXCEPT !.numBuildings = 1, !.roadWidth = 2,
                                         !.parkRadius = 10, !.numParks = 0,
                                         !.roadPattern = "RANDOM",
                                         !.skylineType = "LOW_RISE"]

HighestConfig ==
    [WithLayout(DefaultConfig, 20) EXCEPT !.numBuildings = 100, !.roadWidth = 20,
                                          !.parkRadius = 100, !.numParks = 10,
                                          !.fountainRadius = 40,
                                          !.textureTheme = "FUTURISTIC"]

\* what the window reports: nothing, one key, or two keys whose actions
\* write the same field
KeyChords ==
    {{}} \cup {{key} : key \in Keys \ {"G"}}
         \cup {{"1", "2"}, {"3", "4"}, {"5", "6"}, {"7", "8"}, {"9", "0"}}

InitKeys == AppInit({DefaultConfig, LowestConfig, HighestConfig})

NextKeys ==
    \/ \E pressed \in KeyChords : frames < MaxKeyFrames /\ ProcessInput(pressed)
    \/ UpdateStep
    \/ RenderStep

SpecKeys == InitKeys /\ [][NextKeys]_vars

(***************************************************************************)
(* The render loop with generation                                        *)
(***************************************************************************)
\* iterations of the render loop followed
MaxFrames == 4

\* one park of radius 15, one low-rise building, grid roads, with and
\* without the park
LoopConfigs ==
    {[GridConfig EXCEPT !.skylineType = "LOW_RISE", !.numParks = n] : n \in {0, 1}}

\* keys pressed during the loop: generate, toggle the view, both at once,
\* one park less
LoopChords == {{}, {"G"}, {"V"}, {"G", "V"}, {"9"}}

\* the positions drawn during the loop, valid for a park and for a building
LoopParkSpot == <<200, 175>>

LoopBuildingSpot == <<260, 400>>

InitLoop == AppInit(LoopConfigs)

NextLoop ==
    \/ \E pressed \in LoopChords : frames < MaxFrames /\ ProcessInput(pressed)
    \/ UpdateStep
    \/ RenderStep
    \/ ParksSkip
    \/ ParkAttempt(LoopParkSpot[1], LoopParkSpot[2])
    \/ GenerateRoads(NoDraws)
    \/ BuildingAttempt(LoopBuildingSpot[1], LoopBuildingSpot[2],
                       config.standardWidth, config.standardDepth)

SpecLoop == InitLoop /\ [][NextLoop]_vars

(***************************************************************************)
(* Properties of the rasterization primitives                             *)
(***************************************************************************)
LineReturned == linePoints # <<>>

CircleReturned == circlePoints # <<>>

\* C1: bresenhamLine(x0,y0,x1,y1) starts at (x0,y0), ends at (x1,y1), moves
\* by at most one unit per axis between consecutive points, and returns
\* exactly max(|x1-x0|, |y1-y0|) + 1 points.
C1_LineCorrect ==
    LineReturned =>
        LET x0 == lineArgs[1]
            y0 == lineArgs[2]
            x1 == lineArgs[3]
            y1 == lineArgs[4]
            n  == Len(linePoints)
        IN  /\ linePoints[1] = Point(x0, y0)
            /\ linePoints[n] = Point(x1, y1)
            /\ \A k \in 1..(n - 1) :
                  /\ Abs(linePoints[k + 1].x - linePoints[k].x) <= 1
                  /\ Abs(linePoints[k + 1].y - linePoints[k].y) <= 1
            /\ n = Max(Abs(x1 - x0), Abs(y1 - y0)) + 1

\* the horizontal 601-point line of the reference canvas has been rasterized
C1_Witness ==
    /\ lineArgs = <<0, 0, 600, 0>>
    /\ Len(linePoints) = 601
    /\ \A k \in 1..601 : linePoints[k] = Point(k - 1, 0)

\* the line rasterized from the end point back to the start point
ReversedLine == bresenhamLine(lineArgs[3], lineArgs[4], lineArgs[1], lineArgs[2])

\* C2 as stated: the point set of bresenhamLine(A,B) equals that of
\* bresenhamLine(B,A).
C2_SameSetAsStated ==
    LineReturned => PointSet(linePoints) = PointSet(ReversedLine)

\* the ideal line passes exactly midway between two pixels somewhere strictly
\* between the end points: with long = max(|dx|,|dy|) and short = min(|dx|,|dy|)
\* some step k has 2*k*short = long (mod 2*long)
HasMidwayTie(dx, dy) ==
    LET long  == Max(dx, dy)
        short == Min(dx, dy)
    IN  \E k \in 1..(long - 1) : (2 * k * short) % (2 * long) = long

\* C2 amended: the reversed rasterization has the same length and the same
\* end points, its k-th point counted from the end is within one unit per
\* axis of the k-th point of the forward line, and the two point sets are
\* equal exactly when the line has no midway tie.
C2_ReversedLine ==
    LineReturned =>
        LET n  == Len(linePoints)
            rv == ReversedLine
            dx == Abs(lineArgs[3] - lineArgs[1])
            dy == Abs(lineArgs[4] - lineArgs[2])
        IN  /\ Len(rv) = n
            /\ rv[1] = linePoints[n]
            /\ rv[n] = linePoints[1]
            /\ \A k \in 1..n :
                  /\ Abs(rv[n + 1 - k].x - linePoints[k].x) <= 1
                  /\ Abs(rv[n + 1 - k].y - linePoints[k].y) <= 1
            /\ (PointSet(linePoints) = PointSet(rv)) <=> ~HasMidwayTie(dx, dy)

\* a line without tie whose reversal visits the same points, and it is not an
\* axis-parallel or diagonal line
C2_Witness ==
    /\ lineArgs = <<0, 0, 3, 2>>
    /\ LineReturned
    /\ PointSet(linePoints) = PointSet(ReversedLine)

\* C3: every point of midpointCircle(cx, cy, r) has a distance from the
\* center which, rounded to the nearest integer, is within 1 of r, and the
\* point set is closed under the eight octant reflections about the center.
RoundedDistance(dSquared) ==
    CHOOSE n \in 0..(dSquared + 1) :
        \/ n = 0 /\ dSquared = 0
        \/ n >= 1 /\ n * n - n < dSquared /\ dSquared <= n * n + n

C3_CircleCorrect ==
    CircleReturned =>
        LET cx == circleArgs[1]
            cy == circleArgs[2]
            r  == circleArgs[3]
            rel == {[x |-> p.x - cx, y |-> p.y - cy] : p \in PointSet(circlePoints)}
        IN  /\ \A p \in rel :
                  Abs(RoundedDistance(p.x * p.x + p.y * p.y) - r) <= 1
            /\ \A p \in rel :
                  /\ Point(-p.x, p.y) \in rel
                  /\ Point(p.x, -p.y) \in rel
                  /\ Point(-p.x, -p.y) \in rel
                  /\ Point(p.y, p.x) \in rel
                  /\ Point(-p.y, p.x) \in rel
                  /\ Point(p.y, -p.x) \in rel
                  /\ Point(-p.y, -p.x) \in rel

\* a radius 10 circle about the origin holding an off-axis point whose
\* distance is not r exactly: (3,10) has distance sqrt(109)
C3_Witness ==
    /\ circleArgs = <<0, 0, 10>>
    /\ CircleReturned
    /\ Point(3, 10) \in PointSet(circlePoints)
    /\ Point(-10, -3) \in PointSet(circlePoints)

\* C4: midpointCircle returns 464 points for radius 80, 296 for radius 50,
\* 176 for radius 30; in general 8 points for the initial call of
\* addSymmetricPoints plus 8 for every loop step (the loop counter x of the
\* last step is read off the last group of eight points).
C4_CircleCount ==
    CircleReturned =>
        LET r     == circleArgs[3]
            n     == Len(circlePoints)
            steps == circlePoints[n - 7].x - circleArgs[1]
        IN  /\ n = 8 * (steps + 1)
            /\ r = 80 => n = 464
            /\ r = 50 => n = 296
            /\ r = 30 => n = 176

C4_Witness ==
    /\ circleArgs = <<0, 0, 80>>
    /\ Len(circlePoints) = 464

\* C5: bresenhamLine with identical start and end returns exactly that one
\* point; midpointCircle with radius 0 returns only copies of the center
\* (the eight mirrored copies).
C5_Degenerate ==
    /\ (LineReturned /\ lineArgs[1] = lineArgs[3] /\ lineArgs[2] = lineArgs[4])
          => linePoints = <<Point(lineArgs[1], lineArgs[2])>>
    /\ (CircleReturned /\ circleArgs[3] = 0)
          => /\ Len(circlePoints) = 8
             /\ \A k \in 1..8 : circlePoints[k] = Point(circleArgs[1], circleArgs[2])

C5_Witness ==
    /\ lineArgs = <<400, 300, 400, 300>>
    /\ linePoints = <<Point(400, 300)>>
    /\ circleArgs = <<400, 300, 0>>
    /\ Len(circlePoints) = 8
    /\ PointSet(circlePoints) = {Point(400, 300)}

(***************************************************************************)
(* Properties of a generated city                                         *)
(***************************************************************************)
\* the parks and the fountain of the city that hold points
Shapes ==
    SelectSeq(cityData.parks, LAMBDA park : park # <<>>)
        \o (IF cityData.fountain # <<>> THEN <<cityData.fountain>> ELSE <<>>)

\* every road point is farther from the center of the shape than the shape's
\* farthest boundary point
RoadsOutside(shape) ==
    LET c == CircleCenter(shape)
        m == MaxDistanceSquared(shape, c)
    IN  \A r \in 1..Len(cityData.roads) :
            \A k \in 1..Len(cityData.roads[r].points) :
                DistanceSquared(cityData.roads[r].points[k].x,
                                cityData.roads[r].points[k].y, c.x, c.y) > m

\* C6 as stated: after generateCity, every road point p and every park or
\* fountain circle (center c the average of the boundary points, R the
\* largest distance from c to a boundary point) satisfy distance(p, c) > R.
\* The filter compares in float, where radius * radius can round below the
\* squared distance of the farthest boundary point, so a road point at
\* distance exactly R stays.
C6_RoadsOutsideCircles ==
    Generated => \A s \in 1..Len(Shapes) : RoadsOutside(Shapes[s])

\* squared center distance of parks j and k
ParkDistanceSquared(j, k) ==
    LET a == CircleCenter(cityData.parks[j])
        b == CircleCenter(cityData.parks[k])
    IN  DistanceSquared(a.x, a.y, b.x, b.y)

\* C7: after generateCity, the centers of any two distinct parks are at
\* least 2.5 * parkRadius apart (4 * d^2 >= 25 * parkRadius^2).
C7_ParksApart ==
    Generated =>
        \A j, k \in 1..Len(cityData.parks) :
            j < k => 4 * ParkDistanceSquared(j, k)
                        >= 25 * config.parkRadius * config.parkRadius

\* two parks were placed at exactly 2.5 * parkRadius from each other
C7_Witness ==
    /\ Generated
    /\ Len(cityData.parks) = 2
    /\ 4 * ParkDistanceSquared(1, 2) = 25 * config.parkRadius * config.parkRadius

\* squared distance from the center of park k to the canvas center
FountainDistanceSquared(k) ==
    LET a == CircleCenter(cityData.parks[k])
    IN  DistanceSquared(a.x, a.y, screenWidth \div 2, screenHeight \div 2)

\* C8: after generateCity with fountainRadius > 0, every park's center is at
\* least parkRadius + fountainRadius + 30 away from the fountain center
\* (screenWidth/2, screenHeight/2), so the park circle and the fountain
\* circle (radii parkRadius and fountainRadius) do not touch.
C8_ParksAwayFromFountain ==
    (Generated /\ config.fountainRadius > 0) =>
        \A k \in 1..Len(cityData.parks) :
            LET least == config.parkRadius + config.fountainRadius + 30
                touch == config.parkRadius + config.fountainRadius
            IN  /\ FountainDistanceSquared(k) >= least * least
                /\ FountainDistanceSquared(k) > touch * touch

\* a park was placed at exactly parkRadius + fountainRadius + 30 from the
\* fountain center
C8_Witness ==
    /\ Generated
    /\ config.fountainRadius > 0
    /\ cityData.fountain # <<>>
    /\ \E k \in 1..Len(cityData.parks) :
            LET least == config.parkRadius + config.fountainRadius + 30
            IN  FountainDistanceSquared(k) = least * least

\* C9 as stated: after generateCity the fountain is non-empty exactly when
\* fountainRadius > 0, whatever numParks is, and when present it is the
\* circle rasterized at (screenWidth/2, screenHeight/2) with radius
\* fountainRadius.  generateParks returns before the fountain is placed when
\* numParks is 0.
C9_FountainIffRadius ==
    Generated =>
        /\ cityData.fountain # <<>> <=> config.fountainRadius > 0
        /\ cityData.fountain # <<>> =>
                cityData.fountain = midpointCircle(screenWidth \div 2, screenHeight \div 2,
                                                   config.fountainRadius)

\* the footprints of buildings a and b are more than 25 px apart along the x
\* axis or along the y axis (edges doubled)
FootprintsApart(a, b) ==
    LET p == BuildingBox(a.x, a.y, a.width, a.depth)
        q == BuildingBox(b.x, b.y, b.width, b.depth)
    IN  \/ q.left - p.right > 2 * 25
        \/ p.left - q.right > 2 * 25
        \/ q.top - p.bottom > 2 * 25
        \/ p.top - q.bottom > 2 * 25

\* C10: after generateCity, the footprint of any building enlarged by 25 px
\* on every side does not intersect the footprint of any other building.
C10_BuildingsApart ==
    Generated =>
        \A j, k \in 1..Len(cityData.buildings) :
            j < k => FootprintsApart(cityData.buildings[j], cityData.buildings[k])

\* two buildings stand side by side with a gap of 26 px between them
C10_Witness ==
    /\ Generated
    /\ Len(cityData.buildings) = 2
    /\ LET p == BuildingBox(cityData.buildings[1].x, cityData.buildings[1].y,
                            cityData.buildings[1].width, cityData.buildings[1].depth)
           q == BuildingBox(cityData.buildings[2].x, cityData.buildings[2].y,
                            cityData.buildings[2].width, cityData.buildings[2].depth)
       IN  /\ q.left - p.right = 2 * 26
           /\ q.top = p.top
           /\ q.bottom = p.bottom

\* the least whole number whose square is at least m
CeilRoot(m) == CHOOSE s \in 0..m : s * s >= m /\ (s = 0 \/ (s - 1) * (s - 1) < m)

\* four times the squared distance from the center of the shape to the
\* footprint of building b enlarged by buffer on every side
PaddedDistanceSquared4(b, shape, buffer) ==
    LET box == BuildingBox(b.x, b.y, b.width, b.depth)
        c   == CircleCenter(shape)
        nearX == Max(box.left - 2 * buffer, Min(2 * c.x, box.right + 2 * buffer))
        nearY == Max(box.top - 2 * buffer, Min(2 * c.y, box.bottom + 2 * buffer))
    IN  (nearX - 2 * c.x) * (nearX - 2 * c.x) + (nearY - 2 * c.y) * (nearY - 2 * c.y)

\* stage 1, in exact arithmetic: that distance is at least R + buffer, R the
\* largest distance from the center to a boundary point (R * R = m):
\* 4 d^2 >= 4 (R + buffer)^2  iff  4 d^2 - 4 m - 4 buffer^2 >= 8 buffer R
KeepsDistance(b, shape, buffer) ==
    LET c == CircleCenter(shape)
        m == MaxDistanceSquared(shape, c)
        q == PaddedDistanceSquared4(b, shape, buffer)
        s == CeilRoot(m)
        t == q - 4 * m - 4 * buffer * buffer
    IN  \/ q >= 4 * (s + buffer) * (s + buffer)
        \/ t >= 0 /\ t * t >= 64 * buffer * buffer * m

\* stage 2: no boundary point of the shape lies in the footprint of b
\* enlarged by buffer
NoBoundaryPointNear(b, shape, buffer) ==
    LET box == BuildingBox(b.x, b.y, b.width, b.depth)
    IN  \A k \in 1..Len(shape) :
            \/ 2 * shape[k].x < box.left - 2 * buffer
            \/ 2 * shape[k].x > box.right + 2 * buffer
            \/ 2 * shape[k].y < box.top - 2 * buffer
            \/ 2 * shape[k].y > box.bottom + 2 * buffer

\* C11: after generateCity, every building passes the two-stage 35 px test
\* against every park and against the fountain when present: the derived
\* center is at least derived radius + 35 away from the footprint enlarged
\* by 35 px, and no boundary point lies in that enlarged footprint.
C11_BuildingsClearOfCircles ==
    Generated =>
        \A j \in 1..Len(cityData.buildings) :
            \A s \in 1..Len(Shapes) :
                /\ KeepsDistance(cityData.buildings[j], Shapes[s], 35)
                /\ NoBoundaryPointNear(cityData.buildings[j], Shapes[s], 35)

\* a building stands beside one park and the fountain, its enlarged footprint
\* less than 70 px from the fountain center
C11_Witness ==
    /\ Generated
    /\ Len(cityData.buildings) = 1
    /\ Len(cityData.parks) = 1
    /\ cityData.fountain # <<>>
    /\ PaddedDistanceSquared4(cityData.buildings[1], cityData.fountain, 35) < 4 * 70 * 70

\* point p lies outside the footprint of building b enlarged on every side by
\* pad2 / 2 px
OutsideEnlarged(p, b, pad2) ==
    LET box == BuildingBox(b.x, b.y, b.width, b.depth)
    IN  \/ 2 * p.x < box.left - pad2
        \/ 2 * p.x > box.right + pad2
        \/ 2 * p.y < box.top - pad2
        \/ 2 * p.y > box.bottom + pad2

\* C12: after generateCity, every point of every road lies outside every
\* building footprint enlarged on every side by road.width / 2 + 5 px.
C12_RoadsClearOfBuildings ==
    Generated =>
        \A j \in 1..Len(cityData.buildings) :
            \A r \in 1..Len(cityData.roads) :
                \A k \in 1..Len(cityData.roads[r].points) :
                    OutsideEnlarged(cityData.roads[r].points[k], cityData.buildings[j],
                                    cityData.roads[r].width + 2 * 5)

\* a building stands between grid roads, a road point less than 40 px from
\* its footprint
C12_Witness ==
    /\ Generated
    /\ Len(cityData.buildings) = 1
    /\ \E r \in 1..Len(cityData.roads) :
           \E k \in 1..Len(cityData.roads[r].points) :
               ~OutsideEnlarged(cityData.roads[r].points[k], cityData.buildings[1], 2 * 40)

C14_BuildingBudget ==
    /\ [](pc = "buildings" => attempts <= config.numBuildings * 50)
    /\ [](Len(cityData.buildings) <= config.numBuildings)
    /\ [][pc = "buildings" =>
            /\ \/ pc' = "buildings" /\ attempts' = attempts + 1
               \/ /\ pc' = "idle"
                  /\ cityData'.isGenerated
                  /\ \/ Len(cityData'.buildings) = config.numBuildings
                     \/ attempts + 1 = config.numBuildings * 50
            /\ Len(cityData'.buildings) \in
                    {Len(cityData.buildings), Len(cityData.buildings) + 1}
            /\ SubSeq(cityData'.buildings, 1, Len(cityData.buildings)) = cityData.buildings]_vars
    /\ (pc = "buildings") ~> Generated

\* the budget of two buildings ran out after one was placed
C14_Witness ==
    /\ Generated
    /\ config.numBuildings = 2
    /\ Len(cityData.buildings) = 1

\* the closed height range of a building type
HeightRange(type) ==
    CASE type = "LOW_RISE"  -> 10..30
      [] type = "MID_RISE"  -> 40..100
      [] type = "HIGH_RISE" -> 120..250

\* the building types a skyline policy allows
AllowedTypes(skylineType) ==
    CASE skylineType = "LOW_RISE"   -> {"LOW_RISE"}
      [] skylineType = "MID_RISE"   -> {"MID_RISE"}
      [] skylineType = "MIXED"      -> {"LOW_RISE", "MID_RISE", "HIGH_RISE"}
      [] skylineType = "SKYSCRAPER" -> {"MID_RISE", "HIGH_RISE"}

\* C15: every building of a generated city has a type allowed by the
\* configured skyline policy (LOW_RISE: low-rise; MID_RISE: mid-rise; MIXED:
\* any; SKYSCRAPER: high-rise or mid-rise, never low-rise) and a height in the
\* range of its own type ([10,30], [40,100], [120,250]); under SKYSCRAPER two
\* of the three draw outcomes give high-rise and the third mid-rise.
C15_SkylinePolicy ==
    /\ Generated =>
          \A j \in 1..Len(cityData.buildings) :
              /\ cityData.buildings[j].type \in AllowedTypes(config.skylineType)
              /\ cityData.buildings[j].height \in HeightRange(cityData.buildings[j].type)
    /\ Cardinality({c \in 0..2 : BuildingTypeFor("SKYSCRAPER", c) = "HIGH_RISE"}) = 2
    /\ Cardinality({c \in 0..2 : BuildingTypeFor("SKYSCRAPER", c) = "MID_RISE"}) = 1

\* a mid-rise building under the SKYSCRAPER policy
C15_Witness ==
    /\ Generated
    /\ config.skylineType = "SKYSCRAPER"
    /\ Len(cityData.buildings) = 1
    /\ cityData.buildings[1].type = "MID_RISE"

\* the random draws a road pattern may consume
DrawsFor(cfg) ==
    IF cfg.roadPattern = "RANDOM" THEN RoadDraws(cfg.layoutSize) ELSE {NoDraws}

\* the building the step has appended passed the position check against the
\* parks, fountain and roads held before the step
AppendedBuildingChecked ==
    Len(cityData'.buildings) > Len(cityData.buildings) =>
        LET b == cityData'.buildings[Len(cityData'.buildings)]
        IN  isValidBuildingPosition(b.x, b.y, b.width, b.depth, cityData)

\* C16: a generateCity call clears CityData, then places parks and fountain,
\* then stores the roads filtered against exactly those parks and that
\* fountain, then places buildings checked against these parks, fountain and
\* roads, and only then sets the generated flag; while a stage runs the later
\* stages have produced nothing and the earlier ones change nothing.
C16_StageOrder ==
    /\ [](pc \in {"parks", "roads"} =>
            /\ cityData.roads = <<>>
            /\ cityData.buildings = <<>>
            /\ ~cityData.isGenerated)
    /\ [](pc = "buildings" => ~cityData.isGenerated)
    /\ [][/\ pc = "idle" => pc' = "parks" /\ cityData' = EmptyCityData
          /\ pc = "parks" =>
                /\ pc' \in {"parks", "roads"}
                /\ cityData'.roads = <<>> /\ cityData'.buildings = <<>>
          /\ pc = "roads" =>
                /\ pc' = "buildings"
                /\ cityData'.parks = cityData.parks
                /\ cityData'.fountain = cityData.fountain
                /\ cityData'.buildings = <<>>
                /\ \E rnd \in DrawsFor(config) :
                      cityData'.roads =
                          FilterRoads(generateRoads(config, rnd),
                                      ObstacleCircles(cityData.parks, cityData.fountain))
          /\ pc = "buildings" =>
                /\ pc' \in {"buildings", "idle"}
                /\ cityData'.parks = cityData.parks
                /\ cityData'.fountain = cityData.fountain
                /\ cityData'.roads = cityData.roads
                /\ AppendedBuildingChecked
                /\ cityData'.isGenerated = (pc' = "idle")]_vars

\* the building stage has begun with one park, the fountain and filtered
\* roads in place, and nothing is marked generated yet
C16_Witness ==
    /\ pc = "buildings"
    /\ Len(cityData.parks) = 1
    /\ cityData.fountain # <<>>
    /\ cityData.roads # <<>>
    /\ cityData.roads # generateRoads(config, NoDraws)
    /\ config.roadPattern = "GRID"

\* C17: hasCity() is false from construction until the first generateCity
\* completes, true after every completed generateCity and between calls from
\* then on; within a call it is false from the clear until the last stage has
\* finished, so a true flag never comes with a partially built CityData.
C17_HasCity ==
    /\ [](hasCity => pc = "idle")
    /\ [](pc = "idle" /\ ~hasCity => cityData = EmptyCityData)
    /\ [][/\ pc # "idle" /\ pc' = "idle" => hasCity'
          /\ pc = "idle" /\ pc' # "idle" => ~hasCity'
          /\ hasCity' /\ ~hasCity => pc = "buildings" /\ pc' = "idle"]_vars

\* a call is placing the second of its two parks: the flag is down
C17_Witness ==
    /\ pc = "parks"
    /\ ~hasCity
    /\ Len(cityData.parks) = 1
    /\ config.numParks = 2

\* every park is the circle of the configured parkRadius about its center
ParksOfRadius(radius) ==
    \A k \in 1..Len(cityData.parks) :
        LET c == CircleCenter(cityData.parks[k])
        IN  cityData.parks[k] = midpointCircle(c.x, c.y, radius)

\* what an earlier call could leave behind: more parks or buildings than the
\* last configuration allows, parks of another radius, a fountain of another
\* radius, roads of another width, or elements closer to each other than the
\* last configuration's separations
NothingFromEarlierCalls ==
    /\ Len(cityData.parks) <= config.numParks
    /\ Len(cityData.buildings) <= config.numBuildings
    /\ ParksOfRadius(config.parkRadius)
    /\ cityData.fountain # <<>> =>
            /\ config.fountainRadius > 0
            /\ cityData.fountain = midpointCircle(screenWidth \div 2, screenHeight \div 2,
                                                  config.fountainRadius)
    /\ \A r \in 1..Len(cityData.roads) : cityData.roads[r].width = config.roadWidth
    /\ \A j, k \in 1..Len(cityData.parks) :
            j < k => 4 * ParkDistanceSquared(j, k)
                        >= 25 * config.parkRadius * config.parkRadius
    /\ cityData.fountain # <<>> =>
            \A k \in 1..Len(cityData.parks) :
                FountainDistanceSquared(k) >=
                    (config.parkRadius + config.fountainRadius + 30)
                        * (config.parkRadius + config.fountainRadius + 30)
    /\ \A j, k \in 1..Len(cityData.buildings) :
            j < k => FootprintsApart(cityData.buildings[j], cityData.buildings[k])
    /\ \A j \in 1..Len(cityData.buildings) :
            /\ \A s \in 1..Len(Shapes) :
                    KeepsDistance(cityData.buildings[j], Shapes[s], 35)
            /\ \A r \in 1..Len(cityData.roads) :
                    \A k \in 1..Len(cityData.roads[r].points) :
                        OutsideEnlarged(cityData.roads[r].points[k], cityData.buildings[j],
                                        config.roadWidth + 2 * 5)

\* C18 as stated: after any sequence of generateCity calls with different
\* configurations CityData holds only what the last call produced, with
\* parks <= last numParks, buildings <= last numBuildings, the separations of
\* the last configuration, and the fountain matching the last fountainRadius:
\* present, with that radius, exactly when the radius is positive.  A call
\* with numParks = 0 leaves no fountain although fountainRadius > 0.
C18_OnlyLastCall ==
    Generated =>
        /\ NothingFromEarlierCalls
        /\ cityData.fountain # <<>> <=> config.fountainRadius > 0

\* the part of C18 that holds: nothing of an earlier call is left
C18_NoHistory == Generated => NothingFromEarlierCalls

\* the indices of the points of a road that are not inside any circle, in
\* ascending order
SurvivingIndices(road, circles) ==
    SelectSeq([k \in 1..Len(road.points) |-> k],
              LAMBDA k : ~InsideCircle(road.points[k], circles))

\* the indices of the roads with at least one point not inside any circle,
\* in ascending order
KeptIndices(allRoads, circles) ==
    SelectSeq([k \in 1..Len(allRoads) |-> k],
              LAMBDA k : \E n \in 1..Len(allRoads[k].points) :
                            ~InsideCircle(allRoads[k].points[n], circles))

\* out is allRoads with every road dropped whose points are all inside some
\* circle, the others in their order, each with its width and exactly its
\* surviving points in their order
FilteredFrom(out, allRoads, circles) ==
    LET kept == KeptIndices(allRoads, circles)
    IN  /\ Len(out) = Len(kept)
        /\ \A j \in 1..Len(out) :
              LET road == allRoads[kept[j]]
                  left == SurvivingIndices(road, circles)
              IN  /\ out[j].width = road.width
                  /\ out[j].points # <<>>
                  /\ Len(out[j].points) = Len(left)
                  /\ \A n \in 1..Len(left) : out[j].points[n] = road.points[left[n]]

\* C19: the roads step stores the generated roads filtered against the
\* park and fountain circles: a road is dropped exactly when all its points
\* are inside some circle, a kept road has its width and exactly its
\* surviving points in their order, kept roads stay in order, no stored road
\* is empty and no point is added.
C19_FilterSemantics ==
    [][pc = "roads" =>
          \E rnd \in DrawsFor(config) :
              FilteredFrom(cityData'.roads, generateRoads(config, rnd),
                           ObstacleCircles(cityData.parks, cityData.fountain))]_vars

\* the stored roads came from a draw of which the filter dropped a road,
\* shortened a road and left a road untouched
C19_Witness ==
    /\ pc = "buildings"
    /\ cityData.roads # <<>>
    /\ \E rnd \in DrawsFor(config) :
          LET allRoads == generateRoads(config, rnd)
              circles  == ObstacleCircles(cityData.parks, cityData.fountain)
          IN  /\ FilteredFrom(cityData.roads, allRoads, circles)
              /\ Len(cityData.roads) < Len(allRoads)
              /\ \E j \in 1..Len(cityData.roads) :
                    \A k \in 1..Len(allRoads) : cityData.roads[j] # allRoads[k]
              /\ \E j \in 1..Len(cityData.roads) :
                    \E k \in 1..Len(allRoads) : cityData.roads[j] = allRoads[k]

\* the road runs along a row from x = 50 to x = screenWidth - 50, one point
\* per pixel
FullSpanHorizontal(road) ==
    /\ Len(road.points) = screenWidth - 2 * 50 + 1
    /\ \A n \in 1..Len(road.points) :
          road.points[n] = Point(50 + n - 1, road.points[1].y)

\* the road runs along a column from y = 50 to y = screenHeight - 50, one
\* point per pixel
FullSpanVertical(road) ==
    /\ Len(road.points) = screenHeight - 2 * 50 + 1
    /\ \A n \in 1..Len(road.points) :
          road.points[n] = Point(road.points[1].x, 50 + n - 1)

\* C20: for the grid pattern with layout size N generateRoads returns
\* exactly 2 (N + 1) roads, N + 1 horizontal ones followed by N + 1 vertical
\* ones, each a single line from one margin to the opposite margin with
\* config.roadWidth; 22 roads for N = 10.  (With no park and no fountain the
\* stored roads are the generated ones.)
C20_GridRoads ==
    (/\ pc = "buildings"
     /\ config.roadPattern = "GRID"
     /\ cityData.parks = <<>>
     /\ cityData.fountain = <<>>) =>
        LET N == config.layoutSize
        IN  /\ Len(cityData.roads) = 2 * (N + 1)
            /\ N = 10 => Len(cityData.roads) = 22
            /\ \A k \in 1..Len(cityData.roads) :
                  /\ cityData.roads[k].width = config.roadWidth
                  /\ k <= N + 1 =>
                        /\ FullSpanHorizontal(cityData.roads[k])
                        /\ cityData.roads[k].points =
                              bresenhamLine(50, cityData.roads[k].points[1].y,
                                            screenWidth - 50, cityData.roads[k].points[1].y)
                  /\ k > N + 1 =>
                        /\ FullSpanVertical(cityData.roads[k])
                        /\ cityData.roads[k].points =
                              bresenhamLine(cityData.roads[k].points[1].x, 50,
                                            cityData.roads[k].points[1].x, screenHeight - 50)
            /\ \A j, k \in 1..Len(cityData.roads) :
                  j # k => cityData.roads[j] # cityData.roads[k]

\* the 22 roads of the 10 x 10 grid are stored
C20_Witness ==
    /\ pc = "buildings"
    /\ config.roadPattern = "GRID"
    /\ config.layoutSize = 10
    /\ cityData.parks = <<>>
    /\ cityData.fountain = <<>>
    /\ Len(cityData.roads) = 22

\* the node set of the random pattern: the drawn points and the four fixed
\* points
RandomNodes(rnd) ==
    rnd.nodes \o << Point(100, 100),
                    Point(screenWidth - 100, 100),
                    Point(100, screenHeight - 100),
                    Point(screenWidth - 100, screenHeight - 100) >>

\* the road is the line between two nodes with different indices
JoinsDistinctNodes(road, nodes, width) ==
    \E a, b \in 1..Len(nodes) :
        /\ a # b
        /\ road = createRoad(nodes[a].x, nodes[a].y, nodes[b].x, nodes[b].y, width)

\* C21 as stated: for the random pattern with layout size N generateRoads
\* builds 2N random nodes plus 4 fixed ones and returns 3N roads, each the
\* line between two distinct nodes.  (With no park and no fountain the
\* stored roads are the generated ones.)  The generator skips a draw of two
\* equal indices without drawing again, so it can return fewer roads.
C21_RandomRoads ==
    (/\ pc = "buildings"
     /\ config.roadPattern = "RANDOM"
     /\ cityData.parks = <<>>
     /\ cityData.fountain = <<>>) =>
        \E rnd \in DrawsFor(config) :
            /\ Len(rnd.nodes) = 2 * config.layoutSize
            /\ Len(RandomNodes(rnd)) = 2 * config.layoutSize + 4
            /\ cityData.roads = generateRoads(config, rnd)
            /\ Len(cityData.roads) = 3 * config.layoutSize
            /\ \A k \in 1..Len(cityData.roads) :
                  JoinsDistinctNodes(cityData.roads[k], RandomNodes(rnd), config.roadWidth)

\* the turn from point p to point q as seen from the center (cx, cy): the
\* sign of the cross product of the two offsets
Turn(p, q, cx, cy) ==
    (p.x - cx) * (q.y - cy) - (p.y - cy) * (q.x - cx)

\* C24 as stated: midpointCircle returns its points in clockwise order
\* around the circle, starting from the rightmost point (centerX + radius,
\* centerY); every step from a point to the next turns the same way (either
\* sense is accepted as clockwise, the y axis pointing down on the screen).
\* The code pushes the eight mirror images of each octant point together,
\* starting with (centerX, centerY + radius).
C24_ClockwiseFromRightmost ==
    CircleReturned =>
        LET cx == circleArgs[1]
            cy == circleArgs[2]
            r  == circleArgs[3]
        IN  /\ circlePoints[1] = Point(cx + r, cy)
            /\ \/ \A k \in 1..(Len(circlePoints) - 1) :
                      Turn(circlePoints[k], circlePoints[k + 1], cx, cy) >= 0
               \/ \A k \in 1..(Len(circlePoints) - 1) :
                      Turn(circlePoints[k], circlePoints[k + 1], cx, cy) <= 0

\* sequence s continues sequence t: nothing of t is changed or removed
Extends(s, t) ==
    /\ Len(s) >= Len(t)
    /\ SubSeq(s, 1, Len(t)) = t

C27_GridInsideMargin ==
    (/\ pc = "buildings"
     /\ config.roadPattern = "GRID"
     /\ cityData.parks = <<>>
     /\ cityData.fountain = <<>>) =>
        \A r \in 1..Len(cityData.roads) :
            \A k \in 1..Len(cityData.roads[r].points) :
                /\ cityData.roads[r].points[k].x >= 50
                /\ cityData.roads[r].points[k].x <= screenWidth - 50
                /\ cityData.roads[r].points[k].y >= 50
                /\ cityData.roads[r].points[k].y <= screenHeight - 50

\* C28 as stated: points removed by the obstacle filter leave a gap in the
\* road mesh: every quad of roadTo3DMesh joins two points that were adjacent
\* in the rasterized line, their x and y each differing by at most 1, so no
\* quad spans a park or fountain circle.  roadTo3DMesh joins consecutive
\* points of the filtered list, whatever their distance.
C28_MeshLeavesGaps ==
    pc = "buildings" =>
        \A r \in 1..Len(cityData.roads) :
            LET quads == roadTo3DMesh(cityData.roads[r])
            IN  \A q \in 1..Len(quads) :
                    /\ Abs(quads[q].to.x - quads[q].from.x) <= 1
                    /\ Abs(quads[q].to.y - quads[q].from.y) <= 1

\* candidate positions about the center c of a park: along the axes and the
\* diagonals, at the distances where the closest-point test changes its
\* answer for footprints of 20 and 56 px, inside the range of xDistBetter and
\* yDistBetter
CandidatesAbout(c) ==
    LET near == 90..120
        offsets == {<<d, 0>> : d \in near} \cup {<<0, d>> : d \in near}
                      \cup {<<-d, 0>> : d \in near} \cup {<<d, d>> : d \in near}
                      \cup {<<d, d - 7>> : d \in near}
    IN  {p \in {<<c.x + o[1], c.y + o[2]>> : o \in offsets} :
            /\ p[1] >= 80 /\ p[1] <= screenWidth - 80
            /\ p[2] >= 80 /\ p[2] <= screenHeight - 80}

\* the footprint sizes tried: the standard size of the configuration and the
\* smallest random size
CandidateSizes == {<<config.standardWidth, config.standardDepth>>, <<20, 20>>}

\* C29: a candidate footprint that passes the closest-point circle test of
\* isValidBuildingPosition for a park (center at least radius + 35 px from
\* the footprint enlarged by 35 px) has no boundary point of that park in the
\* footprint enlarged by 35 px: the boundary-point test never rejects on its
\* own.
C29_PointCheckRedundant ==
    pc = "roads" =>
        \A k \in 1..Len(cityData.parks) :
            \A p \in CandidatesAbout(CircleCenter(cityData.parks[k])) :
                \A size \in CandidateSizes :
                    LET box == BuildingBox(p[1], p[2], size[1], size[2])
                    IN  ~CircleNearBox(box, cityData.parks[k], 35)
                            => ~PointNearBox(box, cityData.parks[k], 35)

\* a candidate passes the circle test of a park with its enlarged footprint
\* less than 52 px from the center of the park
C29_Witness ==
    /\ pc = "roads"
    /\ \E k \in 1..Len(cityData.parks) :
          \E p \in CandidatesAbout(CircleCenter(cityData.parks[k])) :
              LET box == BuildingBox(p[1], p[2], config.standardWidth, config.standardDepth)
                  b   == [x |-> p[1], y |-> p[2], width |-> config.standardWidth,
                          depth |-> config.standardDepth]
              IN  /\ ~CircleNearBox(box, cityData.parks[k], 35)
                  /\ PaddedDistanceSquared4(b, cityData.parks[k], 35) < 4 * 52 * 52

\* C23: whatever keys processInput has handled, starting from the default
\* configuration or from one that key presses have driven to the ends of its
\* ranges, the configuration stays in its ranges: numBuildings in 1..100,
\* layoutSize in 5..20, roadWidth in 2..20, parkRadius in 10..100, numParks
\* in 0..10, fountainRadius 25 or 40, road pattern and skyline type among the
\* values of their enums.
C23_ConfigInRange ==
    /\ cityConfig.numBuildings \in 1..100
    /\ cityConfig.layoutSize \in 5..20
    /\ cityConfig.roadWidth \in 2..20
    /\ cityConfig.parkRadius \in 10..100
    /\ cityConfig.numParks \in 0..10
    /\ cityConfig.fountainRadius \in {25, 40}
    /\ cityConfig.roadPattern \in {"GRID", "RADIAL", "RANDOM"}
    /\ cityConfig.skylineType \in {"LOW_RISE", "MID_RISE", "SKYSCRAPER", "MIXED"}

\* processInput has just handled keys 1 and 2 pressed together at one
\* building: key 1 was held at 1 by the clamp before key 2 added five
C23_Witness ==
    /\ loopPc = "update"
    /\ down = {"1", "2"}
    /\ frames > 0
    /\ cityConfig.numBuildings = 6
    /\ cityConfig.numParks = 0

\* C26: in every processInput call the actions that run are those of the
\* keys pressed now that the call before did not see pressed (no call before:
\* none seen): the configuration changes by exactly those actions, and
\* generateCity starts exactly when G is among them.  So an action does not
\* run again while its key stays pressed, and runs again at the first call
\* that sees the key pressed after a call that saw it released.
C26_OncePerPress ==
    [][(loopPc = "input" /\ loopPc' = "update") =>
          /\ cityConfig' = HandleKeys(cityConfig, down' \ down, 1)
          /\ (pc' = "parks") <=> ("G" \in down' /\ "G" \notin down)
          /\ genRequested' = (genRequested \/ ("G" \in down' /\ "G" \notin down))]_vars

\* processInput has returned with G still held since the call that generated
\* the city: no new generation was requested
C26_Witness ==
    /\ loopPc = "update"
    /\ pc = "idle"
    /\ "G" \in down
    /\ ~genRequested
    /\ hasCity
    /\ frames >= 1

\* C30: when the render loop reaches its render call with a city, the
\* buffers of the renderer are those updateCity builds from the CityData the
\* generator holds now: one per road, per park, for a non-empty fountain and
\* per building, in this order; and in the frame drawn every pass has bound
\* only buffers of its own kind of element, all of them in 2D.
C30_RenderOnCurrentBuffers ==
    /\ (loopPc = "render" /\ hasCity) =>
          /\ buffers = updateCity(cityData)
          /\ Len(buffers) = Len(cityData.roads) + Len(cityData.parks)
                               + (IF cityData.fountain # <<>> THEN 1 ELSE 0)
                               + Len(cityData.buildings)
    /\ \A k \in 1..Len(frameDraws) : frameDraws[k].pass = frameDraws[k].kind
    /\ (loopPc = "input" /\ frames > 0 /\ hasCity) =>
          /\ ~cityConfig.view3D => [k \in 1..Len(frameDraws) |-> frameDraws[k].slot]
                                      = [k \in 1..Len(buffers) |-> k]
          /\ cityConfig.view3D => Len(frameDraws) = Len(cityData.buildings)

\* after a city with a park and the fountain, a second city without them
\* has been generated and drawn: the building buffers follow the road
\* buffers directly
C30_Witness ==
    /\ loopPc = "input"
    /\ hasCity
    /\ previous # <<>>
    /\ Len(previous[1].cityData.parks) = 1
    /\ previous[1].cityData.fountain # <<>>
    /\ cityData.parks = <<>>
    /\ cityData.fountain = <<>>
    /\ cityData.buildings # <<>>
    /\ frameDraws # <<>>
    /\ Len(buffers) = Len(cityData.roads) + Len(cityData.buildings)

\* C22: a generateCity call with the configuration of the call before it, on
\* the same generator, returns the CityData that call returned: the same
\* parks, fountain, roads and buildings.
C22_SameCityForSameConfig ==
    (pc = "idle" /\ hasCity /\ previous # <<>> /\ previous[1].config = config)
        => cityData = previous[1].cityData

====
